---- MODULE Spec2Model ----
(***************************************************************************)
(* Model of the authentication, session-ledger and organization-membership *)
(* core of VOICEcheck (src/app/auth/*.py, src/app/routers/auth.py).        *)
(*                                                                         *)
(* The persistent store is the committed database state: users, orgs,      *)
(* memberships, sessions.  Every request runs in its own database session  *)
(* (src/app/database/connection.py get_db), so a handler is a sequence of  *)
(* statements, each reading or committing the shared state; proc[p] holds  *)
(* the position and the loaded ORM objects of request p.                   *)
(***************************************************************************)
EXTENDS Integers, Sequences, FiniteSets, TLC

VARIABLES
    users,        \* users[u]: the row of user u (is_active, last_login_at)
    orgs,         \* sequence of organization rows; the id is the index
    memberships,  \* memberships[o][u]: the row of the unique pair, or NoMem
    sessions,     \* set of session rows
    tokens,       \* token payloads issued so far (held by clients)
    nextJti,      \* number of jtis drawn so far (uuid4 is fresh each time)
    now,          \* the clock, in minutes
    proc,         \* proc[p]: the request p is running (pc, arguments, locals)
    nops,         \* number of calls started (bounds the run)
    hist,         \* ghost: what completed calls did (read by the properties only)
    auth_enabled, \* settings.auth_enabled (FEATURE_FLAG_AUTH), fixed at start
    departments,  \* departments[d]: the department row with id d, if created
    department_id, \* department_id[o][u]: that column of the membership row
    FILES_STORAGE, \* main.py FILES_STORAGE: the uploaded files, in order of upload
    TASKS_STORAGE, \* main.py TASKS_STORAGE: the transcription tasks, in order of creation
    dialogs        \* the dialog rows inserted by upload_file; the id is the index

vars == <<users, orgs, memberships, sessions, tokens, nextJti, now, proc, nops, hist,
          auth_enabled, departments,
          department_id, FILES_STORAGE, TASKS_STORAGE, dialogs>>

-----------------------------------------------------------------------------
(* Bounds of the model *)

NumUsers == 2
MaxOrgs == 2
NumSlugs == 3
NumCodes == 2
NumProcs == 2
MaxOps == 4
MaxAuthOps == 3
MaxTicks == 2
NumDepts == 2
TickStep == 60
MaxFiles == 2
MaxTasks == 2
MaxFileOps == 5

Users == 1..NumUsers
OrgIds == 1..MaxOrgs
Slugs == 1..NumSlugs
Codes == 1..NumCodes
Procs == 1..NumProcs
DeptIds == 1..NumDepts

(* Nullable columns and absent arguments are 0 (last_login_at: -1). *)
NoUser == 0
NoOrg == 0

(* The password user u registered with, and the passwords a client may try. *)
PasswordOf(u) == 10 + u
Passwords == {PasswordOf(u) : u \in Users}

(* bcrypt, as a one-way injective digest *)
hashpw(password) == 3 * password + 1

JWT_ACCESS_TOKEN_EXPIRE_MINUTES == 60
JWT_REFRESH_TOKEN_EXPIRE_DAYS == 30
MinutesPerDay == 1440

-----------------------------------------------------------------------------
(* Roles: UserRole *)

Roles == {"owner", "admin", "member", "viewer"}

BadRole == "guest"

NoMem == [exists |-> FALSE, role |-> "none", is_active |-> FALSE]

NewMembership_Inactive(role) == [exists |-> TRUE, role |-> role, is_active |-> FALSE]

NewMembership(role) == [exists |-> TRUE, role |-> role, is_active |-> TRUE]

NoSession ==
    [user_id |-> 0, token_jti |-> 0, refresh_token_jti |-> 0,
     organization_id |-> 0, expires_at |-> 0, is_active |-> FALSE]

NoToken == [type |-> "none", sub |-> 0, jti |-> 0, org_id |-> 0, exp |-> 0, sig |-> FALSE]

IdleProc ==
    [pc |-> "idle", op |-> "none", org |-> 0, user |-> 0, role |-> "none",
     tok |-> NoToken, pw |-> 0, slug |-> 0, code |-> 0, m |-> NoMem,
     s |-> NoSession, res |-> "none", username |-> 0, email |-> 0,
     rows |-> {}, jwt |-> <<>>, payload |-> <<>>, dept |-> 0,
     count |-> 0, file_id |-> 0, task_id |-> 0, dialog |-> 0, result |-> "None"]

(* No department row; no membership assigned to a department *)
NoDept == [exists |-> FALSE, organization_id |-> 0, is_active |-> FALSE]
NoDepartments == [d \in DeptIds |-> NoDept]
NoDepartmentIds == [o \in OrgIds |-> [u \in Users |-> 0]]

NoHist == [loggedOut |-> {}, revoking |-> {}, rotations |-> {}]

-----------------------------------------------------------------------------
(* Queries of OrganizationsService and AuthService *)

OrgExists(o) == o \in 1..Len(orgs)

get_membership(o, u) ==
    IF o \in OrgIds /\ u \in Users THEN memberships[o][u] ELSE NoMem

count_members_by_role_AnyRole(o, role) ==
    Cardinality({u \in Users :
        /\ memberships[o][u].exists
        /\ memberships[o][u].is_active})

count_members_by_role_AllRows(o, role) ==
    Cardinality({u \in Users :
        /\ memberships[o][u].exists
        /\ memberships[o][u].role = role})

count_members_by_role(o, role) ==
    Cardinality({u \in Users :
        /\ memberships[o][u].exists
        /\ memberships[o][u].role = role
        /\ memberships[o][u].is_active})

is_organization_member_AnyRow(u, o) ==
    /\ o \in OrgIds
    /\ u \in Users
    /\ memberships[o][u].exists

is_organization_member(u, o) ==
    /\ o \in OrgIds
    /\ u \in Users
    /\ memberships[o][u].exists
    /\ memberships[o][u].is_active

get_organization_by_slug(slug) ==
    {o \in 1..Len(orgs) : orgs[o].slug = slug /\ orgs[o].is_active}

get_user_by_email_AnyState(email) ==
    {u \in DOMAIN users : users[u].email = email}

get_user_by_email(email) ==
    {u \in DOMAIN users : users[u].email = email /\ users[u].is_active}

(* get_user_by_id has no is_active filter *)
get_user_by_id(user_id) == {u \in DOMAIN users : u = user_id}

(* The constraints the memberships table enforces at commit:               *)
(* uq_user_organization, ck_valid_role and the two foreign keys.           *)
MembershipInsertOk(o, u, role) ==
    /\ OrgExists(o)
    /\ u \in Users
    /\ ~memberships[o][u].exists
    /\ role \in Roles

-----------------------------------------------------------------------------
(* Request bookkeeping *)

Start(p) ==
    /\ proc[p].pc = "idle"
    /\ nops < MaxOps
    /\ nops' = nops + 1

(* A request to the auth router starts *)
StartAuth(p) ==
    /\ proc[p].pc = "idle"
    /\ nops < MaxAuthOps
    /\ nops' = nops + 1

Goto(p, rec, pc) == proc' = [proc EXCEPT ![p] = [rec EXCEPT !.pc = pc]]

(* The handler has returned or raised; the response is still to be sent. *)
Return(p, rec, res) ==
    proc' = [proc EXCEPT ![p] = [rec EXCEPT !.pc = "done", !.res = res]]

Call(op, o, u, role) ==
    [IdleProc EXCEPT !.op = op, !.org = o, !.user = u, !.role = role]

AuthUnchanged == UNCHANGED <<users, sessions, tokens, nextJti, now, hist, auth_enabled, FILES_STORAGE, TASKS_STORAGE, dialogs, departments, department_id>>

OrgUnchanged == UNCHANGED <<orgs, memberships>>

(* The response leaves; the request's database session is closed. *)
Reply(p) ==
    /\ proc[p].pc = "done"
    /\ proc' = [proc EXCEPT ![p] = IdleProc]
    /\ UNCHANGED <<nops, orgs, memberships>>
    /\ AuthUnchanged

-----------------------------------------------------------------------------
(* OrganizationsService.create_organization *)

Creating == {q \in Procs : proc[q].pc \in {"co_code", "co_select", "co_flush", "co_commit"}}

CodeTaken(c) == \E o \in 1..Len(orgs) : orgs[o].access_code = c

(* A call is admitted while the table has room for its row, or when every  *)
(* code is taken, so that it cannot add a row.                             *)
CreateOrganization(p, owner, slug) ==
    /\ Start(p)
    /\ \/ Len(orgs) + Cardinality(Creating) < MaxOrgs
       \/ \A c \in Codes : CodeTaken(c)
    /\ \E s \in (IF slug = 0 THEN Slugs ELSE {slug}) :
         LET rec == [Call("create_organization", 0, owner, "owner") EXCEPT !.slug = s]
         IN  IF owner \notin Users
             THEN Return(p, rec, "ValueError")
             ELSE IF get_organization_by_slug(s) # {}
             THEN Return(p, rec, "OrganizationAlreadyExistsError")
             ELSE Goto(p, rec, "co_code")
    /\ UNCHANGED <<orgs, memberships>>
    /\ AuthUnchanged

(* The characters _generate_access_code draws from, and how many it draws *)
Alphabet ==
    <<"A", "B", "C", "D", "E", "F", "G", "H", "J", "K", "L", "M", "N", "P", "Q", "R",
      "S", "T", "U", "V", "W", "X", "Y", "Z", "2", "3", "4", "5", "6", "7", "8", "9">>

CodeLength == 6

(* Code c of the model is the draw whose last choice is the c-th character *)
(* and whose other choices are the first; ''.join(...) makes the text.     *)
AccessCodeText_Lower(c) ==
    [i \in 1..CodeLength |-> IF i = CodeLength THEN Alphabet[c] ELSE "a"]

AccessCodeText(c) ==
    [i \in 1..CodeLength |-> IF i = CodeLength THEN Alphabet[c] ELSE Alphabet[1]]

(* _generate_access_code, the body of the while True loop: a draw ...      *)
GenerateAccessCode(p) ==
    /\ proc[p].pc = "co_code"
    /\ \E c \in Codes : Goto(p, [proc[p] EXCEPT !.code = c], "co_select")
    /\ UNCHANGED <<orgs, memberships, nops>>
    /\ AuthUnchanged

(* ... and the SELECT by access_code, over all rows: return the code if no *)
(* row has it, else go round again.                                        *)
GenerateAccessCodeSelect(p) ==
    /\ proc[p].pc = "co_select"
    /\ IF CodeTaken(proc[p].code)
       THEN Goto(p, proc[p], "co_code")
       ELSE Goto(p, proc[p], "co_flush")
    /\ UNCHANGED <<orgs, memberships, nops>>
    /\ AuthUnchanged

(* The row another request has inserted and not yet committed *)
PendingConflict(p) ==
    \E q \in Procs \ {p} :
        /\ proc[q].pc = "co_commit"
        /\ proc[q].slug = proc[p].slug \/ proc[q].code = proc[p].code

(* db.add(organization); flush: the INSERT runs inside the open            *)
(* transaction.  The unique indexes on slug and access_code cover every    *)
(* row; the statement waits while another transaction holds the same key   *)
(* uncommitted.  Nothing is committed yet.                                 *)
CreateOrganizationFlush(p) ==
    /\ proc[p].pc = "co_flush"
    /\ ~PendingConflict(p)
    /\ IF \E o \in 1..Len(orgs) :
              orgs[o].slug = proc[p].slug \/ orgs[o].access_code = proc[p].code
       THEN Return(p, proc[p], "IntegrityError")
       ELSE Goto(p, proc[p], "co_commit")
    /\ UNCHANGED <<orgs, memberships, nops>>
    /\ AuthUnchanged

(* db.add(membership); commit: the organization row and the owner's        *)
(* membership row become visible together.                                 *)
CreateOrganizationCommit(p) ==
    /\ proc[p].pc = "co_commit"
    /\ LET id == Len(orgs) + 1
       IN  /\ orgs' = Append(orgs, [slug |-> proc[p].slug,
                                    access_code |-> proc[p].code,
                                    is_active |-> TRUE])
           /\ memberships' = [memberships EXCEPT ![id][proc[p].user] =
                                  NewMembership("owner")]
           /\ Return(p, [proc[p] EXCEPT !.org = id], "ok")
    /\ UNCHANGED nops
    /\ AuthUnchanged

(* OrganizationsService.delete_organization: soft delete *)
DeleteOrganization(p, o) ==
    /\ Start(p)
    /\ LET rec == Call("delete_organization", o, 0, "none")
       IN  IF ~OrgExists(o) \/ ~orgs[o].is_active
           THEN Return(p, rec, "False") /\ UNCHANGED orgs
           ELSE /\ orgs' = [orgs EXCEPT ![o].is_active = FALSE]
                /\ Return(p, rec, "True")
    /\ UNCHANGED memberships
    /\ AuthUnchanged

-----------------------------------------------------------------------------
(* OrganizationsService.add_member *)

AddMember(p, o, u, role) ==
    /\ Start(p)
    /\ IF MembershipInsertOk(o, u, role)
       THEN /\ memberships' = [memberships EXCEPT ![o][u] = NewMembership(role)]
            /\ Return(p, Call("add_member", o, u, role), "ok")
       ELSE /\ UNCHANGED memberships
            /\ Return(p, Call("add_member", o, u, role), "IntegrityError")
    /\ UNCHANGED orgs
    /\ AuthUnchanged

-----------------------------------------------------------------------------
(* OrganizationsService.add_existing_user *)

AddExistingUser(p, o, email, role) ==
    /\ Start(p)
    /\ LET found == get_user_by_email(email)
           rec == Call("add_existing_user", o, email, role)
       IN  IF found = {}
           THEN Return(p, rec, "MemberNotFoundError")
           ELSE LET existing == get_membership(o, email)
                IN  IF existing.exists /\ existing.is_active
                    THEN Return(p, rec, "ValueError")
                    ELSE IF existing.exists
                    THEN Goto(p, [rec EXCEPT !.m = existing], "ae_reactivate")
                    ELSE Goto(p, rec, "ae_add")
    /\ UNCHANGED <<orgs, memberships>>
    /\ AuthUnchanged

(* existing.is_active = True; existing.role = role; commit.  The unit of    *)
(* work writes the columns whose value differs from the loaded one.         *)
AddExistingUserReactivate(p) ==
    /\ proc[p].pc = "ae_reactivate"
    /\ LET o == proc[p].org
           u == proc[p].user
           loaded == proc[p].m
           row == memberships[o][u]
           written == [row EXCEPT
                         !.is_active = TRUE,
                         !.role = IF loaded.role # proc[p].role
                                  THEN proc[p].role ELSE row.role]
       IN  IF proc[p].role \in Roles
           THEN /\ memberships' = [memberships EXCEPT ![o][u] = written]
                /\ Return(p, proc[p], "ok")
           ELSE /\ UNCHANGED memberships
                /\ Return(p, proc[p], "IntegrityError")
    /\ UNCHANGED <<orgs, nops>>
    /\ AuthUnchanged

AddExistingUserAdd(p) ==
    /\ proc[p].pc = "ae_add"
    /\ LET o == proc[p].org
           u == proc[p].user
       IN  IF MembershipInsertOk(o, u, proc[p].role)
           THEN /\ memberships' = [memberships EXCEPT ![o][u] =
                                       NewMembership(proc[p].role)]
                /\ Return(p, proc[p], "ok")
           ELSE /\ UNCHANGED memberships
                /\ Return(p, proc[p], "IntegrityError")
    /\ UNCHANGED <<orgs, nops>>
    /\ AuthUnchanged

-----------------------------------------------------------------------------
(* OrganizationsService.remove_member *)

RemoveMember(p, o, u) ==
    /\ Start(p)
    /\ LET membership == get_membership(o, u)
           rec == [Call("remove_member", o, u, "none") EXCEPT !.m = membership]
       IN  IF ~membership.exists
           THEN Return(p, rec, "False")
           ELSE IF membership.role = "owner"
           THEN Goto(p, rec, "rm_count")
           ELSE Goto(p, rec, "rm_commit")
    /\ UNCHANGED <<orgs, memberships>>
    /\ AuthUnchanged

RemoveMemberCount(p) ==
    /\ proc[p].pc = "rm_count"
    /\ IF count_members_by_role(proc[p].org, "owner") <= 1
       THEN Return(p, proc[p], "LastOwnerError")
       ELSE Goto(p, proc[p], "rm_commit")
    /\ UNCHANGED <<orgs, memberships, nops>>
    /\ AuthUnchanged

(* membership.is_active = False; commit *)
RemoveMemberCommit(p) ==
    /\ proc[p].pc = "rm_commit"
    /\ memberships' =
         IF proc[p].m.is_active
         THEN [memberships EXCEPT ![proc[p].org][proc[p].user].is_active = FALSE]
         ELSE memberships
    /\ Return(p, proc[p], "True")
    /\ UNCHANGED <<orgs, nops>>
    /\ AuthUnchanged

-----------------------------------------------------------------------------
(* OrganizationsService.change_member_role *)

ChangeMemberRole(p, o, u, new_role) ==
    /\ Start(p)
    /\ LET membership == get_membership(o, u)
           rec == [Call("change_member_role", o, u, new_role) EXCEPT !.m = membership]
       IN  IF new_role \notin Roles
           THEN Return(p, [rec EXCEPT !.m = NoMem], "ValueError")
           ELSE IF ~membership.exists
           THEN Return(p, rec, "None")
           ELSE IF membership.role = "owner" /\ new_role # "owner"
           THEN Goto(p, rec, "cr_count")
           ELSE Goto(p, rec, "cr_commit")
    /\ UNCHANGED <<orgs, memberships>>
    /\ AuthUnchanged

ChangeMemberRoleCount(p) ==
    /\ proc[p].pc = "cr_count"
    /\ IF count_members_by_role(proc[p].org, "owner") <= 1
       THEN Return(p, proc[p], "LastOwnerError")
       ELSE Goto(p, proc[p], "cr_commit")
    /\ UNCHANGED <<orgs, memberships, nops>>
    /\ AuthUnchanged

(* membership.role = new_role; commit; refresh *)
ChangeMemberRoleCommit(p) ==
    /\ proc[p].pc = "cr_commit"
    /\ memberships' =
         IF proc[p].m.role # proc[p].role
         THEN [memberships EXCEPT ![proc[p].org][proc[p].user].role = proc[p].role]
         ELSE memberships
    /\ Return(p, proc[p], "ok")
    /\ UNCHANGED <<orgs, nops>>
    /\ AuthUnchanged


-----------------------------------------------------------------------------
(* routers/organizations.py: the member-management routes.  Each checks    *)
(* the caller's active membership and role in the organization of the URL  *)
(* path, then calls the service with the role of the request body, which   *)
(* the schema allows to be any of the four roles.                          *)
require_member_access(organization_id, user, required_roles) ==
    LET membership == get_membership(organization_id, user)
    IN  IF ~OrgExists(organization_id) \/ ~membership.exists \/ ~membership.is_active
        THEN "403"
        ELSE IF membership.role \notin required_roles
        THEN "403"
        ELSE "ok"

Forbidden(p, op, o, u, role) ==
    /\ Start(p)
    /\ Return(p, Call(op, o, u, role), "403")
    /\ UNCHANGED <<orgs, memberships>>
    /\ AuthUnchanged

(* PATCH /organizations/{organization_id}/members/{user_id}/role *)
ChangeMemberRoleEndpoint(p, user, o, u, role) ==
    IF require_member_access(o, user, {"admin", "owner"}) # "ok"
    THEN Forbidden(p, "change_member_role", o, u, role)
    ELSE ChangeMemberRole(p, o, u, role)

(* DELETE /organizations/{organization_id}/members/{user_id} *)
RemoveMemberEndpoint(p, user, o, u) ==
    IF require_member_access(o, user, {"admin", "owner"}) # "ok"
    THEN Forbidden(p, "remove_member", o, u, "none")
    ELSE RemoveMember(p, o, u)

(* DELETE /organizations/{organization_id} *)
DeleteOrganizationEndpoint(p, user, o) ==
    IF require_member_access(o, user, {"owner"}) # "ok"
    THEN Forbidden(p, "delete_organization", o, 0, "none")
    ELSE DeleteOrganization(p, o)

-----------------------------------------------------------------------------

(* Permission checks: OrganizationsService.check_permission and the         *)
(* predicates built on it, UserRole's capability methods, the request's     *)
(* OrganizationContext and the require_role dependency.                     *)

(* role_hierarchy.get(role, 0) *)
role_hierarchy(role) ==
    CASE role = "owner"  -> 4
      [] role = "admin"  -> 3
      [] role = "member" -> 2
      [] role = "viewer" -> 1
      [] OTHER           -> 0

check_permission_AnyRow(u, o, required_role) ==
    LET membership == get_membership(o, u)
    IN  IF ~membership.exists
        THEN FALSE
        ELSE role_hierarchy(membership.role) >= role_hierarchy(required_role)

check_permission(u, o, required_role) ==
    LET membership == get_membership(o, u)
    IN  IF ~membership.exists \/ ~membership.is_active
        THEN FALSE
        ELSE role_hierarchy(membership.role) >= role_hierarchy(required_role)

can_manage_members(u, o) == check_permission(u, o, "admin")

can_manage_dialogs(u, o) == check_permission(u, o, "member")

can_view_dialogs(u, o) == check_permission(u, o, "viewer")

is_owner(u, o) ==
    LET membership == get_membership(o, u)
    IN  membership.exists /\ membership.is_active /\ membership.role = "owner"

(* UserRole.can_manage_members, can_manage_dialogs, can_view_dialogs *)
UserRole_can_manage_members(role) == role \in {"owner", "admin"}

UserRole_can_manage_dialogs_NoMember(role) == role \in {"owner", "admin"}

UserRole_can_manage_dialogs(role) == role \in {"owner", "admin", "member"}

UserRole_can_view_dialogs(role) == role \in {"owner", "admin", "member", "viewer"}

(* An OrganizationContext is the membership row it was built from; NoMem   *)
(* stands for the absent context (None).                                   *)
Contexts == {NoMem} \cup {NewMembership(role) : role \in Roles}

ServicePredicates == {"can_manage_members", "can_manage_dialogs", "can_view_dialogs", "is_owner"}

ServiceAnswer(name, u, o) ==
    CASE name = "can_manage_members" -> can_manage_members(u, o)
      [] name = "can_manage_dialogs" -> can_manage_dialogs(u, o)
      [] name = "can_view_dialogs"   -> can_view_dialogs(u, o)
      [] name = "is_owner"           -> is_owner(u, o)

(* OrganizationContext.can_manage_members, ..., is_owner *)
ContextAnswer(name, org_ctx) ==
    CASE name = "can_manage_members" -> UserRole_can_manage_members(org_ctx.role)
      [] name = "can_manage_dialogs" -> UserRole_can_manage_dialogs(org_ctx.role)
      [] name = "can_view_dialogs"   -> UserRole_can_view_dialogs(org_ctx.role)
      [] name = "is_owner"           -> org_ctx.role = "owner"

(* check_role of require_role(required_role), given the context *)
check_role(org_ctx, required_role) ==
    IF ~org_ctx.exists
    THEN "400"
    ELSE IF role_hierarchy(org_ctx.role) < role_hierarchy(required_role)
    THEN "403"
    ELSE "ok"

Bool(b) == IF b THEN "True" ELSE "False"

CheckPermission(p, u, o, required_role) ==
    /\ Start(p)
    /\ Return(p, Call("check_permission", o, u, required_role),
              Bool(check_permission(u, o, required_role)))
    /\ OrgUnchanged
    /\ AuthUnchanged

ServicePredicate(p, name, u, o) ==
    /\ Start(p)
    /\ Return(p, Call(name, o, u, "none"), Bool(ServiceAnswer(name, u, o)))
    /\ OrgUnchanged
    /\ AuthUnchanged

ContextPredicate(p, name, org_ctx) ==
    /\ Start(p)
    /\ Return(p, [Call(name, 0, 0, "none") EXCEPT !.m = org_ctx],
              Bool(ContextAnswer(name, org_ctx)))
    /\ OrgUnchanged
    /\ AuthUnchanged

RequireRole(p, org_ctx, required_role) ==
    /\ Start(p)
    /\ Return(p, [Call("require_role", 0, 0, required_role) EXCEPT !.m = org_ctx],
              check_role(org_ctx, required_role))
    /\ OrgUnchanged
    /\ AuthUnchanged

-----------------------------------------------------------------------------
(* Token codec: AuthService.create_access_token, create_refresh_token,     *)
(* decode_token, verify_token_type.  A token is its payload and whether    *)
(* its signature verifies under the secret.                                *)

create_access_token(user_id, organization_id, jti) ==
    [type |-> "access", sub |-> user_id, jti |-> jti,
     org_id |-> IF organization_id # NoOrg THEN organization_id ELSE 0,
     exp |-> now + JWT_ACCESS_TOKEN_EXPIRE_MINUTES, sig |-> TRUE]

create_refresh_token(user_id, jti) ==
    [type |-> "refresh", sub |-> user_id, jti |-> jti, org_id |-> 0,
     exp |-> now + JWT_REFRESH_TOKEN_EXPIRE_DAYS * MinutesPerDay, sig |-> TRUE]

(* decode_token: jose's jwt.decode checks the signature, then the expiry   *)
(* (expired when exp < now).  ExpiredSignatureError is turned into        *)
(* ValueError.  Any other failure falls to the clause                      *)
(* "except jwt.InvalidTokenError", a name the jose.jwt module does not     *)
(* have: evaluating the clause raises AttributeError.                      *)
decode_token(tok) ==
    IF ~tok.sig THEN "AttributeError"
    ELSE IF tok.exp < now THEN "ValueError"
    ELSE "ok"

verify_token_type(tok, token_type) == tok.type = token_type

(* The claims as they are written into and read out of the token string: *)
(* ids travel as text, and org_id is a key the payload has or has not.    *)
str(id) == <<"uuid", id>>

UUID(text) == text[2]

access_payload_NoOrg(user_id, organization_id, jti) ==
    [sub |-> str(user_id), jti |-> str(jti), iat |-> now,
     exp |-> now + JWT_ACCESS_TOKEN_EXPIRE_MINUTES, type |-> "access"]

access_payload(user_id, organization_id, jti) ==
    IF organization_id # NoOrg
    THEN [sub |-> str(user_id), jti |-> str(jti), iat |-> now,
          exp |-> now + JWT_ACCESS_TOKEN_EXPIRE_MINUTES, type |-> "access",
          org_id |-> str(organization_id)]
    ELSE [sub |-> str(user_id), jti |-> str(jti), iat |-> now,
          exp |-> now + JWT_ACCESS_TOKEN_EXPIRE_MINUTES, type |-> "access"]

refresh_payload(user_id, jti) ==
    [sub |-> str(user_id), jti |-> str(jti), iat |-> now,
     exp |-> now + JWT_REFRESH_TOKEN_EXPIRE_DAYS * MinutesPerDay, type |-> "refresh"]

(* jwt.encode under the secret; jwt.decode through decode_token *)
jwt_encode(payload) == [payload |-> payload, sig |-> TRUE]

jwt_decode(token) == decode_token([sig |-> token.sig, exp |-> token.payload.exp])

CodecUnchanged ==
    UNCHANGED <<users, orgs, memberships, sessions, tokens, now, hist, auth_enabled, FILES_STORAGE, TASKS_STORAGE, dialogs, departments, department_id>>

(* create_access_token: a fresh jti and the encoded payload *)
CreateAccessToken(p, user_id, organization_id) ==
    /\ StartAuth(p)
    /\ nextJti' = nextJti + 1
    /\ Goto(p, [Call("create_access_token", organization_id, user_id, "none") EXCEPT
                    !.jwt = jwt_encode(access_payload(user_id, organization_id,
                                                      nextJti + 1))],
            "tk_issued")
    /\ CodecUnchanged

(* create_refresh_token *)
CreateRefreshToken(p, user_id) ==
    /\ StartAuth(p)
    /\ nextJti' = nextJti + 1
    /\ Goto(p, [Call("create_refresh_token", NoOrg, user_id, "none") EXCEPT
                    !.jwt = jwt_encode(refresh_payload(user_id, nextJti + 1))],
            "tk_issued")
    /\ CodecUnchanged

(* decode_token applied to the token just issued *)
DecodeToken(p) ==
    /\ proc[p].pc = "tk_issued"
    /\ IF jwt_decode(proc[p].jwt) = "ok"
       THEN Return(p, [proc[p] EXCEPT !.payload = proc[p].jwt.payload], "ok")
       ELSE Return(p, proc[p], jwt_decode(proc[p].jwt))
    /\ UNCHANGED <<nextJti, nops>>
    /\ CodecUnchanged

(* A token nobody signed with the secret *)
Forged == [type |-> "access", sub |-> 1, jti |-> 1, org_id |-> 0,
           exp |-> JWT_ACCESS_TOKEN_EXPIRE_MINUTES, sig |-> FALSE]

(* What a client can put in the Authorization header, or leave out *)
Presentable == tokens \cup {NoToken, Forged}

(* What a client can put in the refresh_token field of the request body *)
Submittable == tokens \cup {Forged}

-----------------------------------------------------------------------------
(* Session ledger *)

get_session_by_jti_AnyState(jti) ==
    {s \in sessions : s.token_jti = jti}

get_session_by_jti(jti) ==
    {s \in sessions : s.token_jti = jti /\ s.is_active}

get_session_by_refresh_jti_AnyState(jti) ==
    {s \in sessions : s.refresh_token_jti = jti}

get_session_by_refresh_jti_Unexpired(jti) ==
    {s \in sessions : s.refresh_token_jti = jti /\ s.is_active /\ s.expires_at > now}

get_session_by_refresh_jti(jti) ==
    {s \in sessions : s.refresh_token_jti = jti /\ s.is_active}

(* Session.is_valid *)
is_valid(s) == s.is_active /\ s.expires_at > now

NewSession_NoOrg(user_id, organization_id) ==
    [user_id |-> user_id, token_jti |-> nextJti + 1,
     refresh_token_jti |-> nextJti + 2, organization_id |-> NoOrg,
     expires_at |-> now + JWT_ACCESS_TOKEN_EXPIRE_MINUTES, is_active |-> TRUE]

(* create_session: two fresh jtis, one row, the two tokens handed out *)
NewSession(user_id, organization_id) ==
    [user_id |-> user_id, token_jti |-> nextJti + 1,
     refresh_token_jti |-> nextJti + 2, organization_id |-> organization_id,
     expires_at |-> now + JWT_ACCESS_TOKEN_EXPIRE_MINUTES, is_active |-> TRUE]

create_session(user_id, organization_id) ==
    /\ sessions' = sessions \cup {NewSession(user_id, organization_id)}
    /\ tokens' = tokens \cup
         {create_access_token(user_id, organization_id, nextJti + 1),
          create_refresh_token(user_id, nextJti + 2)}
    /\ nextJti' = nextJti + 2

(* The row a loaded session object stands for, if it is still there *)
RowOf(s) == {r \in sessions : r.token_jti = s.token_jti}

revoke_session_AllOfUser(s) ==
    sessions' = {IF r.user_id = s.user_id THEN [r EXCEPT !.is_active = FALSE] ELSE r :
                    r \in sessions}

revoke_session_KeepsActive(s) == sessions' = sessions

(* revoke_session: session.is_active = False; commit *)
revoke_session(s) ==
    sessions' = {IF r.token_jti = s.token_jti THEN [r EXCEPT !.is_active = FALSE] ELSE r :
                    r \in sessions}

-----------------------------------------------------------------------------
(* Identity service *)

verify_password(u, password) == hashpw(password) = users[u].password_hash

authenticate(email, password) ==
    {u \in get_user_by_email(email) : verify_password(u, password)}

get_user_by_username(username) ==
    {u \in DOMAIN users : users[u].username = username /\ users[u].is_active}

authenticate_by_username(username, password) ==
    {u \in get_user_by_username(username) : verify_password(u, password)}

-----------------------------------------------------------------------------
(* Request-time resolution: dependencies._get_user_from_token, require_auth, *)
(* get_current_organization                                                  *)

(* The helper returns None, returns (user, organization id), or lets an    *)
(* exception other than ValueError and KeyError escape.                   *)
NoResult == [ok |-> FALSE, user |-> 0, org |-> 0, raised |-> FALSE]
Raised == [ok |-> FALSE, user |-> 0, org |-> 0, raised |-> TRUE]

GetUserFromToken_NoSessionCheck(tok) ==
    IF tok = NoToken THEN NoResult
    ELSE IF decode_token(tok) = "AttributeError" THEN Raised
    ELSE IF decode_token(tok) = "ValueError" THEN NoResult
    ELSE IF ~verify_token_type(tok, "access") THEN NoResult
    ELSE IF get_user_by_id(tok.sub) = {} \/ ~users[tok.sub].is_active THEN NoResult
    ELSE [ok |-> TRUE, user |-> tok.sub, org |-> tok.org_id, raised |-> FALSE]

GetUserFromToken_NoUserCheck(tok) ==
    IF tok = NoToken THEN NoResult
    ELSE IF decode_token(tok) = "AttributeError" THEN Raised
    ELSE IF decode_token(tok) = "ValueError" THEN NoResult
    ELSE IF ~verify_token_type(tok, "access") THEN NoResult
    ELSE IF \A s \in get_session_by_jti(tok.jti) : ~is_valid(s) THEN NoResult
    ELSE [ok |-> TRUE, user |-> tok.sub, org |-> tok.org_id, raised |-> FALSE]

GetUserFromToken(tok) ==
    IF tok = NoToken THEN NoResult
    ELSE IF decode_token(tok) = "AttributeError" THEN Raised
    ELSE IF decode_token(tok) = "ValueError" THEN NoResult
    ELSE IF ~verify_token_type(tok, "access") THEN NoResult
    ELSE IF get_user_by_id(tok.sub) = {} \/ ~users[tok.sub].is_active THEN NoResult
    ELSE IF \A s \in get_session_by_jti(tok.jti) : ~is_valid(s) THEN NoResult
    ELSE [ok |-> TRUE, user |-> tok.sub, org |-> tok.org_id, raised |-> FALSE]

(* routers/auth.py check_auth_enabled, the first call of every handler of  *)
(* the auth router.                                                        *)
check_auth_enabled == IF ~auth_enabled THEN "503" ELSE "ok"

(* main.py includes the auth router only when the flag is on.              *)
auth_router_included == auth_enabled

(* What a request to a path of the auth router meets before the handler    *)
(* body: no route (404), the handler's own flag check (503), or neither.   *)
auth_endpoint == IF ~auth_router_included THEN "404" ELSE check_auth_enabled

(* The status a protected endpoint answers with, 200 when the user is resolved *)
require_auth(tok) ==
    IF ~auth_enabled THEN "503"
    ELSE IF GetUserFromToken(tok).raised THEN "500"
    ELSE IF ~GetUserFromToken(tok).ok THEN "401"
    ELSE "200"

(* get_current_organization: the query uses select, a name the module      *)
(* never imports, so every call that reaches it raises NameError.          *)
get_current_organization(tok) ==
    IF ~auth_enabled THEN "None"
    ELSE IF GetUserFromToken(tok).raised THEN "AttributeError"
    ELSE IF ~GetUserFromToken(tok).ok THEN "None"
    ELSE IF GetUserFromToken(tok).org = NoOrg THEN "None"
    ELSE "NameError"

(* GET /auth/me, a protected endpoint *)
GetMe(p, tok) ==
    /\ StartAuth(p)
    /\ Return(p, [Call("get_me", 0, 0, "none") EXCEPT !.tok = tok], require_auth(tok))
    /\ UNCHANGED <<users, orgs, memberships, sessions, tokens, nextJti, now, hist,
                   auth_enabled, FILES_STORAGE, TASKS_STORAGE, dialogs, departments, department_id>>

-----------------------------------------------------------------------------
(* The get_current_organization dependency resolved for a request: the    *)
(* value is None, or the call raises before a context is built.           *)
GetCurrentOrganization(p, tok) ==
    /\ StartAuth(p)
    /\ Return(p, [Call("get_current_organization", GetUserFromToken(tok).org,
                       GetUserFromToken(tok).user, "none") EXCEPT !.tok = tok],
              get_current_organization(tok))
    /\ UNCHANGED <<users, orgs, memberships, sessions, tokens, nextJti, now, hist,
                   auth_enabled, FILES_STORAGE, TASKS_STORAGE, dialogs,
                   departments, department_id>>

-----------------------------------------------------------------------------

(* Dialog access: routers/dialogs.py, main.py get_sellers, Dialog model     *)

(* The dialogs table.  No handler of the repository writes a dialog's      *)
(* owner, so the table is fixed: one dialog for every owner a row can      *)
(* have (owner_type NULL, a user, an organization).                        *)
Dialogs ==
    {[owner_type |-> "None", owner_id |-> 0]}
        \cup {[owner_type |-> "user", owner_id |-> u] : u \in Users}
        \cup {[owner_type |-> "organization", owner_id |-> o] : o \in OrgIds}

(* get_user_org_ids: the organizations of the user's active memberships *)
get_user_org_ids_AnyRow(user) ==
    {o \in OrgIds : user \in DOMAIN memberships[o] /\ memberships[o][user].exists}

get_user_org_ids(user) ==
    {o \in OrgIds : /\ user \in DOMAIN memberships[o]
                    /\ memberships[o][user].exists
                    /\ memberships[o][user].is_active}

(* get_accessible_dialog_filter: the rows matched by the disjunction of   *)
(* the conditions it returns                                               *)
get_accessible_dialog_filter(user, user_org_ids, active_org_id) ==
    IF active_org_id # NoOrg
    THEN {d \in Dialogs : d.owner_type = "organization" /\ d.owner_id = active_org_id}
    ELSE {d \in Dialogs :
             \/ d.owner_type = "None"
             \/ d.owner_type = "user" /\ d.owner_id = user
             \/ /\ user_org_ids # {}
                /\ d.owner_type = "organization"
                /\ d.owner_id \in user_org_ids}

(* Dialog.is_accessible_by_user *)
is_accessible_by_user(d, user_id, user_organization_ids) ==
    IF d.owner_type = "None" THEN TRUE
    ELSE IF d.owner_type = "user" /\ d.owner_id = user_id THEN TRUE
    ELSE IF d.owner_type = "organization" /\ d.owner_id \in user_organization_ids THEN TRUE
    ELSE FALSE

(* The access filter written out in main.py get_sellers *)
sellers_access_filter(user, org_ids) ==
    {d \in Dialogs :
        \/ d.owner_type = "None"
        \/ d.owner_type = "user" /\ d.owner_id = user
        \/ d.owner_type = "organization" /\ (IF org_ids # {} THEN d.owner_id \in org_ids
                                                              ELSE FALSE)}

DialogsUnchanged ==
    UNCHANGED <<users, orgs, memberships, sessions, tokens, nextJti, now, hist, auth_enabled, FILES_STORAGE, TASKS_STORAGE, dialogs, departments, department_id>>

(* The endpoints that depend on require_auth and get_current_organization: *)
(* the dependencies run first, then the handler reads the memberships and  *)
(* applies the filter with the context's organization, if there is one.    *)
ListEndpoint(p, op, tok) ==
    LET rec == [Call(op, 0, 0, "none") EXCEPT !.tok = tok]
        user == GetUserFromToken(tok).user
    IN  IF require_auth(tok) # "200"
        THEN Return(p, rec, require_auth(tok))
        ELSE IF get_current_organization(tok) # "None"
        THEN Return(p, rec, "500")
        ELSE Return(p, [rec EXCEPT !.user = user,
                                   !.rows = get_accessible_dialog_filter(
                                                user, get_user_org_ids(user), NoOrg)],
                    "200")

(* GET /dialogs/ *)
GetDialogs(p, tok) ==
    /\ StartAuth(p)
    /\ ListEndpoint(p, "get_dialogs", tok)
    /\ DialogsUnchanged

(* GET /dialogs/dashboard/stats: the statistics are taken over the rows of *)
(* the same filter                                                         *)
GetDashboardStats(p, tok) ==
    /\ StartAuth(p)
    /\ ListEndpoint(p, "get_dashboard_stats", tok)
    /\ DialogsUnchanged

(* GET /dialogs/sellers, registered in main.py before the dialogs router *)
GetSellers(p, tok) ==
    /\ StartAuth(p)
    /\ LET rec == [Call("get_sellers", 0, 0, "none") EXCEPT !.tok = tok]
           user == GetUserFromToken(tok).user
       IN  IF require_auth(tok) # "200"
           THEN Return(p, rec, require_auth(tok))
           ELSE Return(p, [rec EXCEPT !.user = user,
                                      !.rows = sellers_access_filter(
                                                   user, get_user_org_ids(user))],
                       "200")
    /\ DialogsUnchanged

(* GET /dialogs/{dialog_id} for a dialog of the table *)
GetDialogDetail(p, tok, d) ==
    /\ StartAuth(p)
    /\ LET rec == [Call("get_dialog_detail", 0, 0, "none") EXCEPT !.tok = tok]
           user == GetUserFromToken(tok).user
       IN  IF require_auth(tok) # "200"
           THEN Return(p, rec, require_auth(tok))
           ELSE IF ~is_accessible_by_user(d, user, get_user_org_ids(user))
           THEN Return(p, [rec EXCEPT !.user = user], "403")
           ELSE Return(p, [rec EXCEPT !.user = user, !.rows = {d}], "200")
    /\ DialogsUnchanged

(* get_accessible_dialog_filter called by itself, for any user and any     *)
(* selected organization or none                                           *)
AccessibleDialogFilter(p, user, active_org_id) ==
    /\ StartAuth(p)
    /\ Return(p, [Call("get_accessible_dialog_filter", active_org_id, user, "none")
                      EXCEPT !.rows = get_accessible_dialog_filter(
                                          user, get_user_org_ids(user), active_org_id)],
              "returned")
    /\ DialogsUnchanged

-----------------------------------------------------------------------------
(* Uploads and transcription tasks: main.py                                *)

FileIds == 1..MaxFiles
TaskIds == 1..MaxTasks

(* uuid4 is fresh each time: a file, a task and a dialog get the next      *)
(* index, and a deleted entry keeps its index with stored = FALSE.         *)
FileStored(f) == f \in 1..Len(FILES_STORAGE) /\ FILES_STORAGE[f].stored

TaskStored(t) == t \in 1..Len(TASKS_STORAGE) /\ TASKS_STORAGE[t].stored

(* The Dialog row upload_file builds: owner_type and owner_id are not      *)
(* passed and have no default, so they are NULL; created_by is the user.   *)
NewDialog(user) ==
    [owner_type |-> "None", owner_id |-> 0, created_by |-> user, status |-> "pending"]

(* The entry transcribe_file puts in TASKS_STORAGE *)
NewTask(file_id, dialog_id) ==
    [stored |-> TRUE, file_id |-> file_id, dialog_id |-> dialog_id,
     status |-> "pending", progress |-> 0, result |-> "None"]

StartFile(p) ==
    /\ proc[p].pc = "idle"
    /\ nops < MaxFileOps
    /\ nops' = nops + 1

FilesUnchanged ==
    UNCHANGED <<users, orgs, memberships, sessions, tokens, nextJti, now, hist,
                auth_enabled, departments, department_id>>

(* POST /upload up to the entry in FILES_STORAGE; valid stands for the     *)
(* filename, extension and size checks.                                    *)
UploadFile(p, tok, valid) ==
    /\ StartFile(p)
    /\ Len(FILES_STORAGE) < MaxFiles
    /\ LET rec == [Call("upload_file", 0, 0, "none") EXCEPT !.tok = tok]
           file_id == Len(FILES_STORAGE) + 1
       IN  IF require_auth(tok) # "200"
           THEN /\ Return(p, rec, require_auth(tok))
                /\ UNCHANGED FILES_STORAGE
           ELSE IF ~valid
           THEN /\ Return(p, rec, "400")
                /\ UNCHANGED FILES_STORAGE
           ELSE /\ FILES_STORAGE' = Append(FILES_STORAGE, [stored |-> TRUE, dialog_id |-> 0])
                /\ Goto(p, [rec EXCEPT !.user = GetUserFromToken(tok).user,
                                       !.file_id = file_id], "up_dialog")
    /\ UNCHANGED <<TASKS_STORAGE, dialogs>>
    /\ FilesUnchanged

(* upload_file, the try block: the dialog row is committed and its id is   *)
(* stored with the file if the file is still there; an exception is only   *)
(* logged.  The response is 200 in both cases.                             *)
UploadCreateDialog(p, committed) ==
    /\ proc[p].pc = "up_dialog"
    /\ LET rec == proc[p]
           dialog_id == Len(dialogs) + 1
       IN  IF committed
           THEN /\ dialogs' = Append(dialogs, NewDialog(rec.user))
                /\ FILES_STORAGE' =
                       IF FileStored(rec.file_id)
                       THEN [FILES_STORAGE EXCEPT ![rec.file_id].dialog_id = dialog_id]
                       ELSE FILES_STORAGE
                /\ Return(p, [rec EXCEPT !.dialog = dialog_id], "200")
           ELSE /\ UNCHANGED <<dialogs, FILES_STORAGE>>
                /\ Return(p, rec, "200")
    /\ UNCHANGED <<TASKS_STORAGE, nops>>
    /\ FilesUnchanged

(* POST /transcribe/{file_id}: the checks, the dialog set to processing,   *)
(* the task created as pending and the background task scheduled.  The     *)
(* response has left when the background task starts; the same request     *)
(* context runs it.                                                        *)
TranscribeFile(p, file_id) ==
    /\ StartFile(p)
    /\ LET rec == [Call("transcribe_file", 0, 0, "none") EXCEPT !.file_id = file_id]
           dialog_id == FILES_STORAGE[file_id].dialog_id
           task_id == Len(TASKS_STORAGE) + 1
       IN  IF ~FileStored(file_id)
           THEN /\ Return(p, rec, "404")
                /\ UNCHANGED <<TASKS_STORAGE, dialogs>>
           ELSE IF dialog_id = 0
           THEN /\ Return(p, rec, "400")
                /\ UNCHANGED <<TASKS_STORAGE, dialogs>>
           ELSE IF dialogs[dialog_id].status = "completed"
           THEN /\ Return(p, [rec EXCEPT !.dialog = dialog_id,
                                         !.result = "Already transcribed"], "200")
                /\ UNCHANGED <<TASKS_STORAGE, dialogs>>
           ELSE /\ Len(TASKS_STORAGE) < MaxTasks
                /\ dialogs' = [dialogs EXCEPT ![dialog_id].status = "processing"]
                /\ TASKS_STORAGE' = Append(TASKS_STORAGE, NewTask(file_id, dialog_id))
                /\ Goto(p, [rec EXCEPT !.dialog = 0, !.task_id = task_id,
                                       !.res = "200"], "bg_start")
    /\ UNCHANGED FILES_STORAGE
    /\ FilesUnchanged

(* process_transcription_with_db.  A write to TASKS_STORAGE[task_id] of a  *)
(* task that delete_file has removed raises KeyError; the except block     *)
(* writes to the same entry, raises KeyError again and the task ends.      *)
BgUnchanged ==
    /\ UNCHANGED <<FILES_STORAGE, nops>>
    /\ FilesUnchanged

(* status "processing", progress 10 *)
BgStart(p) ==
    /\ proc[p].pc = "bg_start"
    /\ LET rec == proc[p]
       IN  IF ~TaskStored(rec.task_id)
           THEN /\ Return(p, rec, "KeyError")
                /\ UNCHANGED TASKS_STORAGE
           ELSE /\ TASKS_STORAGE' = [TASKS_STORAGE EXCEPT
                                        ![rec.task_id].status = "processing",
                                        ![rec.task_id].progress = 10]
                /\ Goto(p, rec, "bg_load")
    /\ UNCHANGED dialogs
    /\ BgUnchanged

(* get_whisper_service(), then progress 30 *)
BgLoad(p, loaded) ==
    /\ proc[p].pc = "bg_load"
    /\ LET rec == proc[p]
       IN  IF ~loaded
           THEN /\ Goto(p, rec, "bg_except")
                /\ UNCHANGED TASKS_STORAGE
           ELSE IF ~TaskStored(rec.task_id)
           THEN /\ Return(p, rec, "KeyError")
                /\ UNCHANGED TASKS_STORAGE
           ELSE /\ TASKS_STORAGE' = [TASKS_STORAGE EXCEPT ![rec.task_id].progress = 30]
                /\ Goto(p, rec, "bg_transcribe")
    /\ UNCHANGED dialogs
    /\ BgUnchanged

(* service.transcribe(...), then progress 70 *)
BgTranscribe(p, transcribed) ==
    /\ proc[p].pc = "bg_transcribe"
    /\ LET rec == proc[p]
       IN  IF ~transcribed
           THEN /\ Goto(p, rec, "bg_except")
                /\ UNCHANGED TASKS_STORAGE
           ELSE IF ~TaskStored(rec.task_id)
           THEN /\ Return(p, rec, "KeyError")
                /\ UNCHANGED TASKS_STORAGE
           ELSE /\ TASKS_STORAGE' = [TASKS_STORAGE EXCEPT ![rec.task_id].progress = 70]
                /\ Goto(p, rec, "bg_fetch")
    /\ UNCHANGED dialogs
    /\ BgUnchanged

(* The dialog is fetched: the local variable dialog is bound when the      *)
(* query succeeds; a missing row raises "Dialog not found in database".    *)
BgFetch(p, fetched) ==
    /\ proc[p].pc = "bg_fetch"
    /\ LET rec == proc[p]
           dialog_id == TASKS_STORAGE[rec.task_id].dialog_id
       IN  IF ~fetched \/ dialog_id \notin 1..Len(dialogs)
           THEN Goto(p, rec, "bg_except")
           ELSE Goto(p, [rec EXCEPT !.dialog = dialog_id], "bg_save")
    /\ UNCHANGED <<TASKS_STORAGE, dialogs>>
    /\ BgUnchanged

(* The transcription is added, dialog.status = "completed", commit *)
BgSave(p, committed) ==
    /\ proc[p].pc = "bg_save"
    /\ LET rec == proc[p]
       IN  IF ~committed
           THEN /\ Goto(p, rec, "bg_except")
                /\ UNCHANGED dialogs
           ELSE /\ dialogs' = [dialogs EXCEPT ![rec.dialog].status = "completed"]
                /\ Goto(p, rec, "bg_analysis")
    /\ UNCHANGED TASKS_STORAGE
    /\ BgUnchanged

(* The LLM analysis in its own try block: a failure is only logged *)
BgAnalysis(p) ==
    /\ proc[p].pc = "bg_analysis"
    /\ Goto(p, proc[p], "bg_complete")
    /\ UNCHANGED <<TASKS_STORAGE, dialogs>>
    /\ BgUnchanged

(* status "completed", progress 100, the result stored *)
BgComplete(p) ==
    /\ proc[p].pc = "bg_complete"
    /\ LET rec == proc[p]
       IN  IF ~TaskStored(rec.task_id)
           THEN /\ Return(p, rec, "KeyError")
                /\ UNCHANGED TASKS_STORAGE
           ELSE /\ TASKS_STORAGE' = [TASKS_STORAGE EXCEPT
                                        ![rec.task_id].status = "completed",
                                        ![rec.task_id].progress = 100,
                                        ![rec.task_id].result = "transcript"]
                /\ Return(p, rec, "completed")
    /\ UNCHANGED dialogs
    /\ BgUnchanged

(* The except block: status "failed" with the message (progress is left    *)
(* as it is), then dialog.status = "failed" if the dialog was fetched;     *)
(* that commit may fail too, which is only logged.                         *)
task_failed_ResetsProgress(task) ==
    [task EXCEPT !.status = "failed", !.progress = 0]

task_failed(task) ==
    [task EXCEPT !.status = "failed"]

BgExcept(p, committed) ==
    /\ proc[p].pc = "bg_except"
    /\ LET rec == proc[p]
       IN  IF ~TaskStored(rec.task_id)
           THEN /\ Return(p, rec, "KeyError")
                /\ UNCHANGED <<TASKS_STORAGE, dialogs>>
           ELSE /\ TASKS_STORAGE' = [TASKS_STORAGE EXCEPT
                                        ![rec.task_id] = task_failed(@)]
                /\ dialogs' = IF rec.dialog # 0 /\ committed
                              THEN [dialogs EXCEPT ![rec.dialog].status = "failed"]
                              ELSE dialogs
                /\ Return(p, rec, "failed")
    /\ BgUnchanged

(* GET /result/{task_id}: 404 for an unknown task, 400 unless the status   *)
(* is "completed".                                                         *)
get_result(task_id) ==
    IF ~TaskStored(task_id) THEN "404"
    ELSE IF TASKS_STORAGE[task_id].status # "completed" THEN "400"
    ELSE "200"

GetResult(p, task_id) ==
    /\ StartFile(p)
    /\ LET rec == [Call("get_result", 0, 0, "none") EXCEPT !.task_id = task_id]
       IN  IF get_result(task_id) # "200"
           THEN Return(p, rec, get_result(task_id))
           ELSE Return(p, [rec EXCEPT !.result = TASKS_STORAGE[task_id].result], "200")
    /\ UNCHANGED <<FILES_STORAGE, TASKS_STORAGE, dialogs>>
    /\ FilesUnchanged

(* DELETE /file/{file_id}: the file and every task of the file are removed *)
DeleteFile(p, file_id) ==
    /\ StartFile(p)
    /\ LET rec == [Call("delete_file", 0, 0, "none") EXCEPT !.file_id = file_id]
       IN  IF ~FileStored(file_id)
           THEN /\ Return(p, rec, "404")
                /\ UNCHANGED <<FILES_STORAGE, TASKS_STORAGE>>
           ELSE /\ FILES_STORAGE' = [FILES_STORAGE EXCEPT ![file_id].stored = FALSE]
                /\ TASKS_STORAGE' =
                       [t \in 1..Len(TASKS_STORAGE) |->
                           IF TASKS_STORAGE[t].file_id = file_id
                           THEN [TASKS_STORAGE[t] EXCEPT !.stored = FALSE]
                           ELSE TASKS_STORAGE[t]]
                /\ Return(p, rec, "200")
    /\ UNCHANGED dialogs
    /\ FilesUnchanged

-----------------------------------------------------------------------------
(* AuthService.login behind POST /auth/login *)

OrgUnchangedAll ==
    UNCHANGED <<orgs, memberships, auth_enabled, FILES_STORAGE, TASKS_STORAGE, dialogs, now, departments, department_id>>

Login(p, email, password, organization_id) ==
    /\ StartAuth(p)
    /\ LET found == authenticate(email, password)
           rec == [Call("login", organization_id, email, "none") EXCEPT !.pw = password]
       IN  IF auth_endpoint # "ok"
           THEN Return(p, rec, auth_endpoint)
           ELSE IF found = {}
           THEN Return(p, rec, "InvalidCredentials")
           ELSE IF organization_id # NoOrg /\ ~is_organization_member(email, organization_id)
           THEN Return(p, rec, "NotAMember")
           ELSE Goto(p, rec, "li_last")
    /\ UNCHANGED <<users, sessions, tokens, nextJti, hist>>
    /\ OrgUnchangedAll

(* AuthService.login_with_username: the organization is required; the two *)
(* ValueErrors are "Invalid username or password" and "User is not a      *)
(* member of this organization".                                          *)
LoginWithUsername(p, username, password, organization_id) ==
    /\ StartAuth(p)
    /\ LET found == authenticate_by_username(username, password)
           rec == [Call("login_with_username", organization_id, username, "none")
                      EXCEPT !.pw = password]
       IN  IF auth_endpoint # "ok"
           THEN Return(p, rec, auth_endpoint)
           ELSE IF found = {}
           THEN Return(p, rec, "InvalidCredentials")
           ELSE IF ~is_organization_member(username, organization_id)
           THEN Return(p, rec, "NotAMember")
           ELSE Goto(p, rec, "li_last")
    /\ UNCHANGED <<users, sessions, tokens, nextJti, hist>>
    /\ OrgUnchangedAll

(* update_last_login: commit *)
LoginUpdateLastLogin(p) ==
    /\ proc[p].pc = "li_last"
    /\ users' = [users EXCEPT ![proc[p].user].last_login_at = now]
    /\ Goto(p, proc[p], "li_create")
    /\ UNCHANGED <<sessions, tokens, nextJti, hist, nops>>
    /\ OrgUnchangedAll

LoginCreateSession(p) ==
    /\ proc[p].pc = "li_create"
    /\ create_session(proc[p].user, proc[p].org)
    /\ Return(p, [proc[p] EXCEPT !.s = NewSession(proc[p].user, proc[p].org)], "200")
    /\ UNCHANGED <<users, hist, nops>>
    /\ OrgUnchangedAll

-----------------------------------------------------------------------------
(* POST /auth/logout and AuthService.logout *)

Logout(p, tok) ==
    /\ StartAuth(p)
    /\ LET rec == [Call("logout", 0, 0, "none") EXCEPT !.tok = tok]
           found == get_session_by_jti(tok.jti)
       IN  IF auth_endpoint # "ok"
           THEN Return(p, rec, auth_endpoint) /\ UNCHANGED hist
           ELSE IF tok = NoToken \/ decode_token(tok) = "ValueError"
           THEN Return(p, rec, "401") /\ UNCHANGED hist
           ELSE IF decode_token(tok) = "AttributeError"
           THEN Return(p, rec, "500") /\ UNCHANGED hist
           ELSE IF found = {}
           THEN /\ Return(p, rec, "200")
                /\ hist' = [hist EXCEPT !.loggedOut = @ \cup {tok.jti}]
           ELSE /\ \E s \in found : Goto(p, [rec EXCEPT !.s = s], "lo_revoke")
                /\ UNCHANGED hist
    /\ UNCHANGED <<users, sessions, tokens, nextJti>>
    /\ OrgUnchangedAll

LogoutRevoke(p) ==
    /\ proc[p].pc = "lo_revoke"
    /\ IF RowOf(proc[p].s) = {}
       THEN /\ Return(p, proc[p], "StaleDataError")
            /\ UNCHANGED <<sessions, hist>>
       ELSE /\ revoke_session(proc[p].s)
            /\ hist' = [hist EXCEPT !.loggedOut = @ \cup {proc[p].tok.jti}]
            /\ Return(p, proc[p], "200")
    /\ UNCHANGED <<users, tokens, nextJti, nops>>
    /\ OrgUnchangedAll

-----------------------------------------------------------------------------
(* POST /auth/refresh and AuthService.refresh_tokens *)

Refresh(p, tok) ==
    /\ StartAuth(p)
    /\ LET rec == [Call("refresh", 0, 0, "none") EXCEPT !.tok = tok]
           found == get_session_by_refresh_jti(tok.jti)
       IN  IF auth_endpoint # "ok"
           THEN Return(p, rec, auth_endpoint)
           ELSE IF decode_token(tok) = "AttributeError"
           THEN Return(p, rec, "500")
           ELSE IF decode_token(tok) = "ValueError" \/ ~verify_token_type(tok, "refresh")
           THEN Return(p, rec, "401")
           ELSE IF found = {}
           THEN Return(p, rec, "401")
           ELSE \E s \in found :
                  IF get_user_by_id(s.user_id) = {} \/ ~users[s.user_id].is_active
                  THEN Return(p, rec, "401")
                  ELSE Goto(p, [rec EXCEPT !.s = s, !.user = s.user_id], "rf_revoke")
    /\ UNCHANGED <<users, sessions, tokens, nextJti, hist>>
    /\ OrgUnchangedAll

RefreshRevoke(p) ==
    /\ proc[p].pc = "rf_revoke"
    /\ IF RowOf(proc[p].s) = {}
       THEN /\ Return(p, proc[p], "StaleDataError")
            /\ UNCHANGED <<sessions, hist>>
       ELSE /\ revoke_session(proc[p].s)
            /\ hist' = [hist EXCEPT !.revoking = @ \cup {proc[p].s.token_jti}]
            /\ Goto(p, proc[p], "rf_create")
    /\ UNCHANGED <<users, tokens, nextJti, nops>>
    /\ OrgUnchangedAll

RefreshCreate(p) ==
    /\ proc[p].pc = "rf_create"
    /\ create_session(proc[p].user, proc[p].s.organization_id)
    /\ hist' = [hist EXCEPT !.rotations = @ \cup
                  {[kind |-> "refresh", old |-> proc[p].s.token_jti,
                    r |-> proc[p].tok.jti, new |-> nextJti + 1]}]
    /\ Return(p, proc[p], "200")
    /\ UNCHANGED <<users, nops>>
    /\ OrgUnchangedAll

-----------------------------------------------------------------------------
(* POST /auth/select-organization and AuthService.switch_organization *)

SelectOrganization(p, tok, organization_id) ==
    /\ StartAuth(p)
    /\ LET rec == [Call("select_organization", organization_id, GetUserFromToken(tok).user,
                        "none") EXCEPT !.tok = tok]
       IN  IF require_auth(tok) # "200"
           THEN Return(p, rec, require_auth(tok))
           ELSE IF ~is_organization_member(rec.user, organization_id)
           THEN Return(p, rec, "403")
           ELSE Goto(p, rec, "sw_lookup")
    /\ UNCHANGED <<users, sessions, tokens, nextJti, hist>>
    /\ OrgUnchangedAll

SwitchLookup(p) ==
    /\ proc[p].pc = "sw_lookup"
    /\ LET found == get_session_by_jti(proc[p].tok.jti)
       IN  IF found = {}
           THEN Goto(p, proc[p], "sw_create")
           ELSE \E s \in found : Goto(p, [proc[p] EXCEPT !.s = s], "sw_revoke")
    /\ UNCHANGED <<users, sessions, tokens, nextJti, hist, nops>>
    /\ OrgUnchangedAll

SwitchRevoke(p) ==
    /\ proc[p].pc = "sw_revoke"
    /\ IF RowOf(proc[p].s) = {}
       THEN /\ Return(p, proc[p], "StaleDataError")
            /\ UNCHANGED <<sessions, hist>>
       ELSE /\ revoke_session(proc[p].s)
            /\ hist' = [hist EXCEPT !.revoking = @ \cup {proc[p].s.token_jti}]
            /\ Goto(p, proc[p], "sw_create")
    /\ UNCHANGED <<users, tokens, nextJti, nops>>
    /\ OrgUnchangedAll

SwitchCreate(p) ==
    /\ proc[p].pc = "sw_create"
    /\ create_session(proc[p].user, proc[p].org)
    /\ hist' = [hist EXCEPT !.rotations = @ \cup
                  {[kind |-> "switch", old |-> proc[p].tok.jti, r |-> 0,
                    new |-> nextJti + 1]}]
    /\ Return(p, proc[p], "200")
    /\ UNCHANGED <<users, nops>>
    /\ OrgUnchangedAll

-----------------------------------------------------------------------------
(* AuthService.switch_organization called with any user, organization and *)
(* jti.  The steps after the membership check are those of the route; the *)
(* jti argument is carried in the tok field of the call.                  *)
SwitchOrganization(p, user_id, organization_id, current_jti) ==
    /\ StartAuth(p)
    /\ LET rec == [Call("switch_organization", organization_id, user_id, "none")
                      EXCEPT !.tok = [NoToken EXCEPT !.jti = current_jti]]
       IN  IF ~is_organization_member(user_id, organization_id)
           THEN Return(p, rec, "None")
           ELSE Goto(p, rec, "sw_lookup")
    /\ UNCHANGED <<users, sessions, tokens, nextJti, hist>>
    /\ OrgUnchangedAll

-----------------------------------------------------------------------------

(* Maintenance and environment *)

(* The rows the DELETE of cleanup_expired_sessions matches *)
expired_sessions_ActiveOnly == {s \in sessions : s.expires_at < now /\ s.is_active}

expired_sessions == {s \in sessions : s.expires_at < now}

(* cleanup_expired_sessions called as a function: the DELETE, the commit, *)
(* and result.rowcount as the value returned                              *)
CleanupExpiredSessionsCall(p) ==
    /\ StartAuth(p)
    /\ sessions' = sessions \ expired_sessions
    /\ Return(p, [Call("cleanup_expired_sessions", 0, 0, "none") EXCEPT
                     !.rows = expired_sessions,
                     !.count = Cardinality(expired_sessions)],
              "returned")
    /\ UNCHANGED <<users, tokens, nextJti, hist>>
    /\ OrgUnchangedAll

(* AuthService.cleanup_expired_sessions: one DELETE, committed *)
CleanupExpiredSessions ==
    /\ \E s \in sessions : s.expires_at < now
    /\ sessions' = {s \in sessions : ~(s.expires_at < now)}
    /\ UNCHANGED <<users, tokens, nextJti, hist, nops, proc>>
    /\ OrgUnchangedAll

(* The clock advances *)
Tick ==
    /\ now < MaxTicks * TickStep
    /\ now' = now + TickStep
    /\ UNCHANGED <<users, orgs, memberships, sessions, tokens, nextJti, proc, nops, hist,
                   auth_enabled, FILES_STORAGE, TASKS_STORAGE, dialogs, departments, department_id>>

(* An account is banned: users.is_active is cleared (no handler does it) *)
DeactivateUser(u) ==
    /\ users[u].is_active
    /\ users' = [users EXCEPT ![u].is_active = FALSE]
    /\ UNCHANGED <<sessions, tokens, nextJti, hist, nops, proc>>
    /\ OrgUnchangedAll

(* The process stops inside a handler: what was committed stays, the open  *)
(* transaction is rolled back and no response is sent.                     *)
Crash(p) ==
    /\ proc[p].pc \notin {"idle", "done"}
    /\ proc' = [proc EXCEPT ![p] = IdleProc]
    /\ UNCHANGED <<users, sessions, tokens, nextJti, hist, nops>>
    /\ OrgUnchangedAll

-----------------------------------------------------------------------------
(* Initial states *)

(* The accounts the other specifications start with: user u has username  *)
(* u and email u, and the password PasswordOf(u).                         *)
NewUser(username, email, password) ==
    [username |-> username, email |-> email, is_active |-> TRUE,
     last_login_at |-> -1, password_hash |-> hashpw(password)]

InitUsers == [u \in Users |-> NewUser(u, u, PasswordOf(u))]

-----------------------------------------------------------------------------
(* AuthService.create_user and OrganizationsService.create_and_add_user    *)

(* An absent username or email (None, or the empty string) *)
None == -1

Names == 1..NumUsers

PASSWORD_MIN_LENGTH == 8
PASSWORD_MAX_LENGTH == 128

(* A password is written by its length: one password per length. *)
len(password) == password

CreatePasswords ==
    {PASSWORD_MIN_LENGTH - 1, PASSWORD_MIN_LENGTH, PASSWORD_MAX_LENGTH, PASSWORD_MAX_LENGTH + 1}

validate_password_NoMax(password) ==
    IF len(password) < PASSWORD_MIN_LENGTH THEN "PasswordTooShort" ELSE "ok"

(* _validate_password: the two ValueErrors, or no exception *)
validate_password(password) ==
    IF len(password) < PASSWORD_MIN_LENGTH THEN "PasswordTooShort"
    ELSE IF len(password) > PASSWORD_MAX_LENGTH THEN "PasswordTooLong"
    ELSE "ok"

(* create_user up to the INSERT: the ValueError raised, or "insert" *)
create_user_checks(password, username, email) ==
    IF validate_password(password) # "ok" THEN validate_password(password)
    ELSE IF username = None /\ email = None THEN "NoIdentifier"
    ELSE IF username # None /\ get_user_by_username(username) # {} THEN "UsernameExists"
    ELSE IF email # None /\ get_user_by_email(email) # {} THEN "EmailExists"
    ELSE "insert"

UserInsertOk_UsernameOnly(username, email) ==
    \A u \in DOMAIN users :
        username = None \/ users[u].username # username

(* The unique indexes on users.username and users.email: every row counts, *)
(* NULLs do not collide.                                                   *)
UserInsertOk(username, email) ==
    \A u \in DOMAIN users :
        /\ username = None \/ users[u].username # username
        /\ email = None \/ users[u].email # email

NextUserId == Cardinality(DOMAIN users) + 1

InsertUser(username, email, password) ==
    users' = [u \in DOMAIN users \cup {NextUserId} |->
                IF u = NextUserId THEN NewUser(username, email, password) ELSE users[u]]

(* A call is admitted while the table has room for its row, or when it    *)
(* cannot add one.                                                        *)
UserRoom(password, username, email) ==
    \/ Cardinality(DOMAIN users) < NumUsers
    \/ create_user_checks(password, username, email) # "insert"
    \/ ~UserInsertOk(username, email)

UsersUnchanged == UNCHANGED <<sessions, tokens, nextJti, now, hist, auth_enabled, FILES_STORAGE, TASKS_STORAGE, dialogs, departments, department_id>>

CreateUser(p, password, username, email) ==
    /\ Start(p)
    /\ UserRoom(password, username, email)
    /\ LET rec == [Call("create_user", 0, 0, "none") EXCEPT
                      !.pw = password, !.username = username, !.email = email]
           checks == create_user_checks(password, username, email)
       IN  IF checks # "insert"
           THEN Return(p, rec, checks)
           ELSE Goto(p, rec, "cu_commit")
    /\ UNCHANGED <<users, orgs, memberships>>
    /\ UsersUnchanged

(* db.add(user); commit; IntegrityError becomes ValueError("User with     *)
(* this username or email already exists") after a rollback.              *)
CreateUserCommit(p) ==
    /\ proc[p].pc = "cu_commit"
    /\ IF UserInsertOk(proc[p].username, proc[p].email)
       THEN /\ InsertUser(proc[p].username, proc[p].email, proc[p].pw)
            /\ Return(p, [proc[p] EXCEPT !.user = NextUserId], "ok")
       ELSE /\ UNCHANGED users
            /\ Return(p, proc[p], "UsernameOrEmailExists")
    /\ UNCHANGED <<orgs, memberships, nops>>
    /\ UsersUnchanged

(* POST /auth/register: the route (if the router is included), the        *)
(* RegisterRequest schema, check_auth_enabled, create_user with the email *)
(* only, then create_session(user.id, None).                              *)
RegisterRequest(password) ==
    IF len(password) < PASSWORD_MIN_LENGTH \/ len(password) > PASSWORD_MAX_LENGTH
    THEN "422" ELSE "ok"

Register(p, email, password) ==
    /\ StartAuth(p)
    /\ UserRoom(password, None, email) \/ ~auth_router_included
    /\ LET rec == [Call("register", 0, 0, "none") EXCEPT
                      !.pw = password, !.username = None, !.email = email]
       IN  IF ~auth_router_included THEN Return(p, rec, "404")
           ELSE IF RegisterRequest(password) # "ok" THEN Return(p, rec, "422")
           ELSE IF check_auth_enabled # "ok" THEN Return(p, rec, check_auth_enabled)
           ELSE IF create_user_checks(password, None, email) # "insert"
           THEN Return(p, rec, "400")
           ELSE Goto(p, rec, "rg_commit")
    /\ UNCHANGED <<users, orgs, memberships>>
    /\ UsersUnchanged

RegisterCommit(p) ==
    /\ proc[p].pc = "rg_commit"
    /\ IF UserInsertOk(proc[p].username, proc[p].email)
       THEN /\ InsertUser(proc[p].username, proc[p].email, proc[p].pw)
            /\ Goto(p, [proc[p] EXCEPT !.user = NextUserId], "rg_session")
       ELSE /\ UNCHANGED users
            /\ Return(p, proc[p], "400")
    /\ UNCHANGED <<orgs, memberships, nops>>
    /\ UsersUnchanged

RegisterCreateSession(p) ==
    /\ proc[p].pc = "rg_session"
    /\ create_session(proc[p].user, NoOrg)
    /\ Return(p, [proc[p] EXCEPT !.s = NewSession(proc[p].user, NoOrg)], "200")
    /\ UNCHANGED <<users, hist, nops>>
    /\ OrgUnchangedAll

get_organization_by_id_NoCheck(o) == {o}

get_organization_by_id(o) == {x \in 1..Len(orgs) : x = o /\ orgs[x].is_active}

(* The ValueErrors of create_user whose message holds "already exists" *)
AlreadyExistsErrors == {"UsernameExists", "EmailExists", "UsernameOrEmailExists"}

CreateAndAddUser(p, o, username, password, role, email) ==
    /\ Start(p)
    /\ UserRoom(password, username, email)
    /\ LET rec == [Call("create_and_add_user", o, 0, role) EXCEPT
                      !.pw = password, !.username = username, !.email = email]
           checks == create_user_checks(password, username, email)
       IN  IF role \notin Roles
           THEN Return(p, rec, "InvalidRole")
           ELSE IF get_organization_by_id(o) = {}
           THEN Return(p, rec, "OrganizationNotFound")
           ELSE IF checks \in AlreadyExistsErrors
           THEN Return(p, rec, "UserAlreadyExistsError")
           ELSE IF checks # "insert"
           THEN Return(p, rec, checks)
           ELSE Goto(p, rec, "cau_user")
    /\ UNCHANGED <<users, orgs, memberships>>
    /\ UsersUnchanged

(* create_user's commit inside create_and_add_user *)
CreateAndAddUserCommitUser(p) ==
    /\ proc[p].pc = "cau_user"
    /\ IF UserInsertOk(proc[p].username, proc[p].email)
       THEN /\ InsertUser(proc[p].username, proc[p].email, proc[p].pw)
            /\ Goto(p, [proc[p] EXCEPT !.user = NextUserId], "cau_member")
       ELSE /\ UNCHANGED users
            /\ Return(p, proc[p], "UserAlreadyExistsError")
    /\ UNCHANGED <<orgs, memberships, nops>>
    /\ UsersUnchanged

(* add_member: db.add(membership); commit.  The commit goes through, or   *)
(* the database refuses or is lost and the exception leaves the call.     *)
CreateAndAddUserAddMember(p) ==
    /\ proc[p].pc = "cau_member"
    /\ \/ /\ MembershipInsertOk(proc[p].org, proc[p].user, proc[p].role)
          /\ memberships' = [memberships EXCEPT ![proc[p].org][proc[p].user] =
                                 NewMembership(proc[p].role)]
          /\ Return(p, proc[p], "ok")
       \/ /\ UNCHANGED memberships
          /\ Return(p, proc[p], "DBAPIError")
    /\ UNCHANGED <<users, orgs, nops>>
    /\ UsersUnchanged

UserCalls(p) ==
    \/ \E pw \in CreatePasswords, n \in Names \cup {None}, e \in Names \cup {None} :
           CreateUser(p, pw, n, e)
    \/ CreateUserCommit(p)
    \/ \E o \in OrgIds, n \in Names \cup {None}, pw \in CreatePasswords,
          r \in Roles \cup {BadRole}, e \in Names \cup {None} :
           CreateAndAddUser(p, o, n, pw, r, e)
    \/ CreateAndAddUserCommitUser(p)
    \/ CreateAndAddUserAddMember(p)
    \/ \E o \in OrgIds : DeleteOrganization(p, o)
    \/ Reply(p)
    \/ Crash(p)

(* One account, which owns one organization *)
InitOneUser ==
    /\ users = [u \in {1} |-> NewUser(1, 1, PasswordOf(1))]
    /\ orgs = <<[slug |-> 1, access_code |-> 1, is_active |-> TRUE]>>
    /\ memberships = [o \in OrgIds |-> [u \in Users |->
                        IF o = 1 /\ u = 1 THEN NewMembership("owner") ELSE NoMem]]
    /\ sessions = {}
    /\ tokens = {}
    /\ nextJti = 0
    /\ now = 0
    /\ proc = [p \in Procs |-> IdleProc]
    /\ nops = 0
    /\ hist = NoHist
    /\ auth_enabled = TRUE
    /\ FILES_STORAGE = <<>>
    /\ TASKS_STORAGE = <<>>
    /\ dialogs = <<>>
    /\ departments = NoDepartments
    /\ department_id = NoDepartmentIds

NextUsers == UserCalls(1) \/ \E u \in DOMAIN users : DeactivateUser(u)

SpecUsers == InitOneUser /\ [][NextUsers]_vars

-----------------------------------------------------------------------------
(* DepartmentsService: auth/departments.py                                 *)

get_department(department_id_) ==
    {d \in DeptIds : /\ d = department_id_
                     /\ departments[d].exists
                     /\ departments[d].is_active}

(* select(Membership).where(Membership.department_id == department_id) *)
members_of_department_ActiveOnly(d) ==
    {ou \in OrgIds \X Users : /\ memberships[ou[1]][ou[2]].exists
                               /\ memberships[ou[1]][ou[2]].is_active
                               /\ department_id[ou[1]][ou[2]] = d}

members_of_department(d) ==
    {ou \in OrgIds \X Users : /\ memberships[ou[1]][ou[2]].exists
                               /\ department_id[ou[1]][ou[2]] = d}

FreeDeptIds == {d \in DeptIds : ~departments[d].exists}

DeptUnchanged ==
    UNCHANGED <<users, orgs, memberships, sessions, tokens, nextJti, now, hist, auth_enabled, FILES_STORAGE, TASKS_STORAGE, dialogs>>

(* create_department: one INSERT; the organization must be a row *)
CreateDepartment(p, organization_id) ==
    /\ Start(p)
    /\ FreeDeptIds # {}
    /\ LET d == CHOOSE x \in FreeDeptIds : \A y \in FreeDeptIds : x <= y
           rec == [Call("create_department", organization_id, 0, "none") EXCEPT !.dept = d]
       IN  IF organization_id \notin 1..Len(orgs)
           THEN /\ UNCHANGED departments
                /\ Return(p, [rec EXCEPT !.dept = 0], "IntegrityError")
           ELSE /\ departments' = [departments EXCEPT ![d] =
                                      [exists |-> TRUE, organization_id |-> organization_id,
                                       is_active |-> TRUE]]
                /\ Return(p, rec, "ok")
    /\ UNCHANGED department_id
    /\ DeptUnchanged

(* delete_department: the row is deactivated and every membership that    *)
(* points at it is unlinked, in one commit.                                *)
DeleteDepartment(p, d) ==
    /\ Start(p)
    /\ LET rec == [Call("delete_department", 0, 0, "none") EXCEPT !.dept = d]
       IN  IF get_department(d) = {}
           THEN /\ UNCHANGED <<departments, department_id>>
                /\ Return(p, rec, "False")
           ELSE /\ departments' = [departments EXCEPT ![d].is_active = FALSE]
                /\ department_id' =
                      [o \in OrgIds |-> [u \in Users |->
                          IF <<o, u>> \in members_of_department(d)
                          THEN 0 ELSE department_id[o][u]]]
                /\ Return(p, [rec EXCEPT !.rows = members_of_department(d)], "True")
    /\ DeptUnchanged

(* assign_member: the active membership of the user in the organization   *)
(* gets the department id; the column is a foreign key.                    *)
AssignMember(p, d, user_id, organization_id) ==
    /\ Start(p)
    /\ LET rec == [Call("assign_member", organization_id, user_id, "none") EXCEPT !.dept = d]
       IN  IF ~is_organization_member(user_id, organization_id)
           THEN /\ UNCHANGED department_id
                /\ Return(p, rec, "None")
           ELSE IF ~departments[d].exists
           THEN /\ UNCHANGED department_id
                /\ Return(p, rec, "IntegrityError")
           ELSE /\ department_id' = [department_id EXCEPT ![organization_id][user_id] = d]
                /\ Return(p, rec, "ok")
    /\ UNCHANGED departments
    /\ DeptUnchanged

(* remove_member_from_department *)
RemoveMemberFromDepartment(p, user_id, organization_id) ==
    /\ Start(p)
    /\ LET rec == Call("remove_member_from_department", organization_id, user_id, "none")
       IN  IF ~is_organization_member(user_id, organization_id)
           THEN /\ UNCHANGED department_id
                /\ Return(p, rec, "None")
           ELSE /\ department_id' = [department_id EXCEPT ![organization_id][user_id] = 0]
                /\ Return(p, rec, "ok")
    /\ UNCHANGED departments
    /\ DeptUnchanged

(* One account and its organization, the flag on or off: registrations   *)
(* and logins, one request at a time.                                     *)
InitFlag ==
    /\ users = [u \in {1} |-> NewUser(1, 1, PasswordOf(1))]
    /\ orgs = <<[slug |-> 1, access_code |-> 1, is_active |-> TRUE]>>
    /\ memberships = [o \in OrgIds |-> [u \in Users |->
                        IF o = 1 /\ u = 1 THEN NewMembership("owner") ELSE NoMem]]
    /\ sessions = {}
    /\ tokens = {}
    /\ nextJti = 0
    /\ now = 0
    /\ proc = [p \in Procs |-> IdleProc]
    /\ nops = 0
    /\ hist = NoHist
    /\ auth_enabled \in BOOLEAN
    /\ FILES_STORAGE = <<>>
    /\ TASKS_STORAGE = <<>>
    /\ dialogs = <<>>
    /\ departments = NoDepartments
    /\ department_id = NoDepartmentIds

FlagCalls(p) ==
    \/ \E e \in Names, pw \in CreatePasswords : Register(p, e, pw)
    \/ RegisterCommit(p)
    \/ RegisterCreateSession(p)
    \/ \E e \in Names, pw \in Passwords \cup {PASSWORD_MIN_LENGTH}, o \in {NoOrg, 1} :
           Login(p, e, pw, o)
    \/ LoginUpdateLastLogin(p)
    \/ LoginCreateSession(p)
    \/ Reply(p)

NextFlag == FlagCalls(1) \/ Tick

SpecFlag == InitFlag /\ [][NextFlag]_vars

InitEmpty ==
    /\ users = InitUsers
    /\ orgs = <<>>
    /\ memberships = [o \in OrgIds |-> [u \in Users |-> NoMem]]
    /\ sessions = {}
    /\ tokens = {}
    /\ nextJti = 0
    /\ now = 0
    /\ proc = [p \in Procs |-> IdleProc]
    /\ nops = 0
    /\ hist = NoHist
    /\ auth_enabled = TRUE
    /\ FILES_STORAGE = <<>>
    /\ TASKS_STORAGE = <<>>
    /\ dialogs = <<>>
    /\ departments = NoDepartments
    /\ department_id = NoDepartmentIds

-----------------------------------------------------------------------------
(* The organization service, calls run one at a time (request 1 only) *)

CreateCalls(p) ==
    \/ \E owner \in Users \cup {NoUser}, slug \in Slugs \cup {0} :
           CreateOrganization(p, owner, slug)
    \/ GenerateAccessCode(p)
    \/ GenerateAccessCodeSelect(p)
    \/ CreateOrganizationFlush(p)
    \/ CreateOrganizationCommit(p)
    \/ \E o \in OrgIds : DeleteOrganization(p, o)

MemberCalls(p) ==
    \/ \E o \in OrgIds, u \in Users, r \in Roles \cup {BadRole} : AddMember(p, o, u, r)
    \/ \E o \in OrgIds, e \in Users \cup {NoUser}, r \in Roles : AddExistingUser(p, o, e, r)
    \/ AddExistingUserReactivate(p)
    \/ AddExistingUserAdd(p)
    \/ \E o \in OrgIds, u \in Users : RemoveMember(p, o, u)
    \/ RemoveMemberCount(p)
    \/ RemoveMemberCommit(p)
    \/ \E o \in OrgIds, u \in Users, r \in Roles \cup {BadRole} : ChangeMemberRole(p, o, u, r)
    \/ ChangeMemberRoleCount(p)
    \/ ChangeMemberRoleCommit(p)

NextOrg == CreateCalls(1) \/ MemberCalls(1) \/ Reply(1) \/ Crash(1)

SpecOrg == InitEmpty /\ [][NextOrg]_vars

(* create_organization and delete_organization under concurrent requests *)
NextCreateConc == \E p \in Procs : CreateCalls(p) \/ Reply(p)

SpecCreateConc == InitEmpty /\ [][NextCreateConc]_vars

(* The same calls, with the event loop running a started create call on:  *)
(* a step of its handler that can be taken is eventually taken.           *)
CreateSteps(p) ==
    \/ GenerateAccessCode(p)
    \/ GenerateAccessCodeSelect(p)
    \/ CreateOrganizationFlush(p)
    \/ CreateOrganizationCommit(p)

SpecOrgFair == InitEmpty /\ [][NextOrg]_vars /\ WF_vars(CreateSteps(1))

(* The permission checks, asked between membership calls on an             *)
(* organization that user 1 has created.                                   *)
InitRoles ==
    /\ users = InitUsers
    /\ orgs = <<[slug |-> 1, access_code |-> 1, is_active |-> TRUE]>>
    /\ memberships = [o \in OrgIds |-> [u \in Users |->
                        IF o = 1 /\ u = 1 THEN NewMembership("owner") ELSE NoMem]]
    /\ sessions = {}
    /\ tokens = {}
    /\ nextJti = 0
    /\ now = 0
    /\ proc = [p \in Procs |-> IdleProc]
    /\ nops = 1
    /\ hist = NoHist
    /\ auth_enabled = TRUE
    /\ FILES_STORAGE = <<>>
    /\ TASKS_STORAGE = <<>>
    /\ dialogs = <<>>
    /\ departments = NoDepartments
    /\ department_id = NoDepartmentIds

RoleCalls(p) ==
    \/ \E u \in Users, o \in OrgIds, r \in Roles : CheckPermission(p, u, o, r)
    \/ \E name \in ServicePredicates, u \in Users, o \in OrgIds : ServicePredicate(p, name, u, o)
    \/ \E name \in ServicePredicates, c \in Contexts \ {NoMem} : ContextPredicate(p, name, c)
    \/ \E c \in Contexts, r \in Roles : RequireRole(p, c, r)

NextRoles == RoleCalls(1) \/ MemberCalls(1) \/ Reply(1)

SpecRoles == InitRoles /\ [][NextRoles]_vars

(* The membership calls under concurrent requests, in an organization that  *)
(* create_organization and add_member have given two active owners.         *)

InitTwoOwners ==
    /\ users = InitUsers
    /\ orgs = <<[slug |-> 1, access_code |-> 1, is_active |-> TRUE]>>
    /\ memberships = [o \in OrgIds |-> [u \in Users |->
                         IF o = 1 /\ u \in {1, 2} THEN NewMembership("owner") ELSE NoMem]]
    /\ sessions = {}
    /\ tokens = {}
    /\ nextJti = 0
    /\ now = 0
    /\ proc = [p \in Procs |-> IdleProc]
    /\ nops = 2
    /\ hist = NoHist
    /\ auth_enabled = TRUE
    /\ FILES_STORAGE = <<>>
    /\ TASKS_STORAGE = <<>>
    /\ dialogs = <<>>
    /\ departments = NoDepartments
    /\ department_id = NoDepartmentIds

NextOrgConc == \E p \in Procs : MemberCalls(p) \/ Reply(p)

SpecOrgConc == InitTwoOwners /\ [][NextOrgConc]_vars

-----------------------------------------------------------------------------
(* The session orchestrator, one request at a time.  Organization 1 has     *)
(* owner 1 and member 2, organization 2 has owner 2: three calls of the     *)
(* organization service produce this state.                                 *)

InitAuth ==
    /\ users = InitUsers
    /\ orgs = <<[slug |-> 1, access_code |-> 1, is_active |-> TRUE],
                [slug |-> 2, access_code |-> 2, is_active |-> TRUE]>>
    /\ memberships = [o \in OrgIds |-> [u \in Users |->
                         IF o = 1 /\ u = 1 THEN NewMembership("owner")
                         ELSE IF o = 1 /\ u = 2 THEN NewMembership("member")
                         ELSE IF o = 2 /\ u = 2 THEN NewMembership("owner")
                         ELSE NoMem]]
    /\ sessions = {}
    /\ tokens = {}
    /\ nextJti = 0
    /\ now = 0
    /\ proc = [p \in Procs |-> IdleProc]
    /\ nops = 0
    /\ hist = NoHist
    /\ auth_enabled \in BOOLEAN
    /\ FILES_STORAGE = <<>>
    /\ TASKS_STORAGE = <<>>
    /\ dialogs = <<>>
    /\ departments = NoDepartments
    /\ department_id = NoDepartmentIds

AuthCalls(p) ==
    \/ \E e \in Users \cup {NoUser}, pw \in Passwords, o \in {NoOrg, 1, 2} : Login(p, e, pw, o)
    \/ LoginUpdateLastLogin(p)
    \/ LoginCreateSession(p)
    \/ \E t \in Presentable : GetMe(p, t)
    \/ \E t \in Presentable : Logout(p, t)
    \/ LogoutRevoke(p)
    \/ \E t \in Submittable : Refresh(p, t)
    \/ RefreshRevoke(p)
    \/ RefreshCreate(p)
    \/ \E t \in Presentable, o \in {1, 2} : SelectOrganization(p, t, o)
    \/ SwitchLookup(p)
    \/ SwitchRevoke(p)
    \/ SwitchCreate(p)
    \/ \E o \in {1, 2}, u \in Users : nops < MaxAuthOps /\ RemoveMember(p, o, u)
    \/ RemoveMemberCount(p)
    \/ RemoveMemberCommit(p)
    \/ Reply(p)
    \/ Crash(p)

(* The two login calls, one request at a time, while memberships are      *)
(* removed, accounts are banned and the clock advances.                   *)
LoginCalls(p) ==
    \/ \E e \in Users \cup {NoUser}, pw \in Passwords, o \in {NoOrg, 1, 2} : Login(p, e, pw, o)
    \/ \E n \in Users \cup {NoUser}, pw \in Passwords, o \in {1, 2} :
           LoginWithUsername(p, n, pw, o)
    \/ LoginUpdateLastLogin(p)
    \/ LoginCreateSession(p)
    \/ \E o \in {1, 2}, u \in Users : nops < MaxAuthOps /\ RemoveMember(p, o, u)
    \/ RemoveMemberCount(p)
    \/ RemoveMemberCommit(p)
    \/ Reply(p)

NextLogin ==
    \/ LoginCalls(1)
    \/ Tick
    \/ \E u \in Users : DeactivateUser(u)

SpecLogin == InitAuth /\ [][NextLogin]_vars

NextAuth ==
    \/ AuthCalls(1)
    \/ CleanupExpiredSessions
    \/ Tick
    \/ \E u \in Users : DeactivateUser(u)

SpecAuth == InitAuth /\ [][NextAuth]_vars

(* Logins, refreshes and protected requests, one at a time, while         *)
(* accounts are banned.                                                   *)
BanCalls(p) ==
    \/ \E e \in Users, pw \in Passwords, o \in {NoOrg, 1} : Login(p, e, pw, o)
    \/ \E n \in Users, pw \in Passwords, o \in {1, 2} : LoginWithUsername(p, n, pw, o)
    \/ LoginUpdateLastLogin(p)
    \/ LoginCreateSession(p)
    \/ \E t \in Presentable : GetMe(p, t)
    \/ \E t \in Submittable : Refresh(p, t)
    \/ RefreshRevoke(p)
    \/ RefreshCreate(p)
    \/ Reply(p)

NextBan == BanCalls(1) \/ \E u \in Users : DeactivateUser(u)

SpecBan == InitAuth /\ [][NextBan]_vars

(* Department calls, one at a time, while members are removed *)
DeptCalls(p) ==
    \/ \E o \in OrgIds : CreateDepartment(p, o)
    \/ \E d \in DeptIds : DeleteDepartment(p, d)
    \/ \E d \in DeptIds, u \in Users, o \in OrgIds : AssignMember(p, d, u, o)
    \/ \E u \in Users, o \in OrgIds : RemoveMemberFromDepartment(p, u, o)
    \/ \E o \in OrgIds, u \in Users : RemoveMember(p, o, u)
    \/ RemoveMemberCount(p)
    \/ RemoveMemberCommit(p)
    \/ Reply(p)

NextDepts == DeptCalls(1)

SpecDepts == InitAuth /\ [][NextDepts]_vars

(* Tokens are issued and decoded while the clock advances *)
CodecCalls(p) ==
    \/ \E u \in Users, o \in OrgIds \cup {NoOrg} : CreateAccessToken(p, u, o)
    \/ \E u \in Users : CreateRefreshToken(p, u)
    \/ DecodeToken(p)
    \/ Reply(p)

NextCodec == CodecCalls(1) \/ Tick

SpecCodec == InitAuth /\ [][NextCodec]_vars

(* The dialog endpoints, one request at a time, with the flag on or off,  *)
(* while members are removed.                                             *)
DialogCalls(p) ==
    \/ \E e \in Users, o \in {NoOrg, 1, 2} : Login(p, e, PasswordOf(e), o)
    \/ LoginUpdateLastLogin(p)
    \/ LoginCreateSession(p)
    \/ \E t \in Presentable : GetDialogs(p, t)
    \/ \E t \in Presentable : GetDashboardStats(p, t)
    \/ \E t \in Presentable : GetSellers(p, t)
    \/ \E t \in Presentable, d \in Dialogs : GetDialogDetail(p, t, d)
    \/ \E u \in Users, o \in OrgIds \cup {NoOrg} : AccessibleDialogFilter(p, u, o)
    \/ \E o \in {1, 2}, u \in Users : nops < MaxAuthOps /\ RemoveMember(p, o, u)
    \/ RemoveMemberCount(p)
    \/ RemoveMemberCommit(p)
    \/ Reply(p)

NextDialogs == DialogCalls(1)

SpecDialogs == InitAuth /\ [][NextDialogs]_vars

-----------------------------------------------------------------------------
(* Two requests at once against a ledger that holds one session: user 1    *)
(* has logged in to organization 1 at time 0.                               *)

InitOneSession ==
    /\ users = [InitUsers EXCEPT ![1].last_login_at = 0]
    /\ orgs = <<[slug |-> 1, access_code |-> 1, is_active |-> TRUE],
                [slug |-> 2, access_code |-> 2, is_active |-> TRUE]>>
    /\ memberships = [o \in OrgIds |-> [u \in Users |->
                         IF o = 1 /\ u = 1 THEN NewMembership("owner")
                         ELSE IF o = 1 /\ u = 2 THEN NewMembership("member")
                         ELSE IF o = 2 /\ u = 2 THEN NewMembership("owner")
                         ELSE NoMem]]
    /\ sessions = {[user_id |-> 1, token_jti |-> 1, refresh_token_jti |-> 2,
                    organization_id |-> 1,
                    expires_at |-> JWT_ACCESS_TOKEN_EXPIRE_MINUTES, is_active |-> TRUE]}
    /\ tokens = {[type |-> "access", sub |-> 1, jti |-> 1, org_id |-> 1,
                  exp |-> JWT_ACCESS_TOKEN_EXPIRE_MINUTES, sig |-> TRUE],
                 [type |-> "refresh", sub |-> 1, jti |-> 2, org_id |-> 0,
                  exp |-> JWT_REFRESH_TOKEN_EXPIRE_DAYS * MinutesPerDay, sig |-> TRUE]}
    /\ nextJti = 2
    /\ now = 0
    /\ proc = [p \in Procs |-> IdleProc]
    /\ nops = 1
    /\ hist = NoHist
    /\ auth_enabled = TRUE
    /\ FILES_STORAGE = <<>>
    /\ TASKS_STORAGE = <<>>
    /\ dialogs = <<>>
    /\ departments = NoDepartments
    /\ department_id = NoDepartmentIds

NextAuthConc ==
    \E p \in Procs :
        \/ \E t \in Submittable : Refresh(p, t)
        \/ RefreshRevoke(p)
        \/ RefreshCreate(p)
        \/ \E t \in Presentable : Logout(p, t)
        \/ LogoutRevoke(p)
        \/ Reply(p)

SpecAuthConc == InitOneSession /\ [][NextAuthConc]_vars

(* Uploads, transcriptions with their background tasks, result reads and  *)
(* file deletions, two requests at a time.  Both users have logged in      *)
(* without an organization.                                                *)
InitFiles ==
    /\ users = InitUsers
    /\ orgs = <<[slug |-> 1, access_code |-> 1, is_active |-> TRUE],
                [slug |-> 2, access_code |-> 2, is_active |-> TRUE]>>
    /\ memberships = [o \in OrgIds |-> [u \in Users |->
                         IF o = 1 /\ u = 1 THEN NewMembership("owner")
                         ELSE IF o = 2 /\ u = 2 THEN NewMembership("owner")
                         ELSE NoMem]]
    /\ sessions = {[user_id |-> u, token_jti |-> 2 * u - 1, refresh_token_jti |-> 2 * u,
                    organization_id |-> NoOrg,
                    expires_at |-> JWT_ACCESS_TOKEN_EXPIRE_MINUTES, is_active |-> TRUE]
                       : u \in Users}
    /\ tokens = {[type |-> "access", sub |-> u, jti |-> 2 * u - 1, org_id |-> NoOrg,
                  exp |-> JWT_ACCESS_TOKEN_EXPIRE_MINUTES, sig |-> TRUE] : u \in Users}
    /\ nextJti = 2 * NumUsers
    /\ now = 0
    /\ proc = [p \in Procs |-> IdleProc]
    /\ nops = 0
    /\ hist = NoHist
    /\ auth_enabled = TRUE
    /\ FILES_STORAGE = <<>>
    /\ TASKS_STORAGE = <<>>
    /\ dialogs = <<>>
    /\ departments = NoDepartments
    /\ department_id = NoDepartmentIds

BackgroundSteps(p) ==
    \/ BgStart(p)
    \/ \E loaded \in BOOLEAN : BgLoad(p, loaded)
    \/ \E transcribed \in BOOLEAN : BgTranscribe(p, transcribed)
    \/ \E fetched \in BOOLEAN : BgFetch(p, fetched)
    \/ \E committed \in BOOLEAN : BgSave(p, committed)
    \/ BgAnalysis(p)
    \/ BgComplete(p)
    \/ \E committed \in BOOLEAN : BgExcept(p, committed)

NextTasks ==
    \E p \in Procs :
        \/ \E t \in {[type |-> "access", sub |-> 1, jti |-> 1, org_id |-> NoOrg,
                      exp |-> JWT_ACCESS_TOKEN_EXPIRE_MINUTES, sig |-> TRUE], NoToken},
              valid \in BOOLEAN : UploadFile(p, t, valid)
        \/ \E committed \in BOOLEAN : UploadCreateDialog(p, committed)
        \/ \E f \in FileIds : TranscribeFile(p, f)
        \/ BackgroundSteps(p)
        \/ \E t \in TaskIds : GetResult(p, t)
        \/ \E f \in FileIds : DeleteFile(p, f)
        \/ Reply(p)

SpecTasks == InitFiles /\ [][NextTasks]_vars

(* Uploads by either user and reads of the uploaded dialogs by either     *)
(* user, one request at a time.                                           *)
UploadCalls(p) ==
    \/ \E t \in {tk \in Presentable : tk # Forged}, valid \in BOOLEAN : UploadFile(p, t, valid)
    \/ \E committed \in BOOLEAN : UploadCreateDialog(p, committed)
    \/ \E t \in {tk \in Presentable : tk # Forged}, d \in 1..Len(dialogs) :
          GetDialogDetail(p, t, dialogs[d])
    \/ Reply(p)

NextUpload == UploadCalls(1)

SpecUpload == InitFiles /\ [][NextUpload]_vars

(* The member-management routes called by user 2, who is admin of          *)
(* organization 1; user 1 is its owner.  create_organization and           *)
(* add_member produce this state.                                          *)
InitAdmin ==
    /\ users = InitUsers
    /\ orgs = <<[slug |-> 1, access_code |-> 1, is_active |-> TRUE]>>
    /\ memberships = [o \in OrgIds |-> [u \in Users |->
                         IF o = 1 /\ u = 1 THEN NewMembership("owner")
                         ELSE IF o = 1 /\ u = 2 THEN NewMembership("admin")
                         ELSE NoMem]]
    /\ sessions = {}
    /\ tokens = {}
    /\ nextJti = 0
    /\ now = 0
    /\ proc = [p \in Procs |-> IdleProc]
    /\ nops = 0
    /\ hist = NoHist
    /\ auth_enabled = TRUE
    /\ FILES_STORAGE = <<>>
    /\ TASKS_STORAGE = <<>>
    /\ dialogs = <<>>
    /\ departments = NoDepartments
    /\ department_id = NoDepartmentIds

AdminCalls(p, user) ==
    \/ \E o \in OrgIds, u \in Users, r \in Roles : ChangeMemberRoleEndpoint(p, user, o, u, r)
    \/ ChangeMemberRoleCount(p)
    \/ ChangeMemberRoleCommit(p)
    \/ \E o \in OrgIds, u \in Users : RemoveMemberEndpoint(p, user, o, u)
    \/ RemoveMemberCount(p)
    \/ RemoveMemberCommit(p)
    \/ \E o \in OrgIds : DeleteOrganizationEndpoint(p, user, o)
    \/ Reply(p)

NextAdmin == AdminCalls(1, 2)

SpecAdmin == InitAdmin /\ [][NextAdmin]_vars

(* Logins and organization switches, one request at a time, in a run in   *)
(* which organizations are deleted.                                       *)
SwitchCalls(p) ==
    \/ \E e \in Users, o \in {NoOrg, 1, 2} : Login(p, e, PasswordOf(e), o)
    \/ \E n \in Users, o \in {1, 2} : LoginWithUsername(p, n, PasswordOf(n), o)
    \/ LoginUpdateLastLogin(p)
    \/ LoginCreateSession(p)
    \/ \E t \in tokens, o \in {1, 2} : SelectOrganization(p, t, o)
    \/ \E u \in Users, o \in {1, 2}, jti \in 1..nextJti : SwitchOrganization(p, u, o, jti)
    \/ SwitchLookup(p)
    \/ SwitchRevoke(p)
    \/ SwitchCreate(p)
    \/ \E o \in {1, 2} : nops < MaxAuthOps /\ DeleteOrganization(p, o)
    \/ Reply(p)

NextSwitch == SwitchCalls(1)

SpecSwitch == InitAuth /\ [][NextSwitch]_vars

(* Logins into an organization, role changes of its members and           *)
(* resolutions of the issued tokens, one request at a time.               *)
ResolveCalls(p) ==
    \/ \E e \in Users, o \in {1, 2} : Login(p, e, PasswordOf(e), o)
    \/ LoginUpdateLastLogin(p)
    \/ LoginCreateSession(p)
    \/ \E o \in {1, 2}, u \in Users, r \in Roles : ChangeMemberRole(p, o, u, r)
    \/ ChangeMemberRoleCount(p)
    \/ ChangeMemberRoleCommit(p)
    \/ \E t \in tokens : GetCurrentOrganization(p, t)
    \/ Reply(p)

NextResolve == ResolveCalls(1)

SpecResolve == InitAuth /\ [][NextResolve]_vars

(* create_user under concurrent requests, starting from an empty users    *)
(* table.  A call is admitted while the rows and the inserts in flight    *)
(* leave room for its row, or when it cannot add one, or when it competes *)
(* with an insert in flight for the same username or email.               *)
InitNoUsers ==
    /\ users = <<>>
    /\ orgs = <<>>
    /\ memberships = [o \in OrgIds |-> [u \in Users |-> NoMem]]
    /\ sessions = {}
    /\ tokens = {}
    /\ nextJti = 0
    /\ now = 0
    /\ proc = [p \in Procs |-> IdleProc]
    /\ nops = 0
    /\ hist = NoHist
    /\ auth_enabled = TRUE
    /\ FILES_STORAGE = <<>>
    /\ TASKS_STORAGE = <<>>
    /\ dialogs = <<>>
    /\ departments = NoDepartments
    /\ department_id = NoDepartmentIds

InsertsInFlight == {q \in Procs : proc[q].pc = "cu_commit"}

UserRoomConc(username, email) ==
    \/ Cardinality(DOMAIN users) + Cardinality(InsertsInFlight) < NumUsers
    \/ \E q \in InsertsInFlight :
          \/ username # None /\ proc[q].username = username
          \/ email # None /\ proc[q].email = email

NextUserConc ==
    \/ \E p \in Procs :
          \/ \E pw \in {PASSWORD_MIN_LENGTH}, n \in Names \cup {None}, e \in Names \cup {None} :
                /\ UserRoomConc(n, e) \/ create_user_checks(pw, n, e) # "insert"
                                      \/ ~UserInsertOk(n, e)
                /\ CreateUser(p, pw, n, e)
          \/ CreateUserCommit(p)
          \/ Reply(p)
    \/ \E u \in DOMAIN users : DeactivateUser(u)

SpecUserConc == InitNoUsers /\ [][NextUserConc]_vars

(* Logins, logouts and refreshes, one request at a time, with calls of    *)
(* cleanup_expired_sessions while the clock advances.                     *)
SweepCalls(p) ==
    \/ \E e \in Users, o \in {NoOrg, 1} : Login(p, e, PasswordOf(e), o)
    \/ LoginUpdateLastLogin(p)
    \/ LoginCreateSession(p)
    \/ \E t \in tokens : Logout(p, t)
    \/ LogoutRevoke(p)
    \/ \E t \in tokens : Refresh(p, t)
    \/ RefreshRevoke(p)
    \/ RefreshCreate(p)
    \/ CleanupExpiredSessionsCall(p)
    \/ Reply(p)

NextSweep == SweepCalls(1) \/ Tick

SpecSweep == InitAuth /\ [][NextSweep]_vars

(* Two requests at once, starting from an empty ledger: logins of the     *)
(* same or of different users overlap with each other and with logouts    *)
(* and refreshes, while the clock advances.                               *)
NextLoginConc ==
    \/ \E p \in Procs :
        \/ \E e \in Users, o \in {NoOrg, 1} : Login(p, e, PasswordOf(e), o)
        \/ LoginUpdateLastLogin(p)
        \/ LoginCreateSession(p)
        \/ \E t \in tokens : Logout(p, t)
        \/ LogoutRevoke(p)
        \/ \E t \in tokens : Refresh(p, t)
        \/ RefreshRevoke(p)
        \/ RefreshCreate(p)
        \/ Reply(p)
    \/ Tick

SpecLoginConc == InitAuth /\ [][NextLoginConc]_vars

-----------------------------------------------------------------------------
(* Properties *)

ActiveOwners(o) ==
    {u \in Users : memberships[o][u] = [exists |-> TRUE, role |-> "owner", is_active |-> TRUE]}

(* C1: with the calls of the organization service run one at a time, every  *)
(* organization create_organization has created keeps at least one          *)
(* membership that is active and has role owner.                            *)
C1_AlwaysAnOwner == \A o \in 1..Len(orgs) : ActiveOwners(o) # {}

(* An owner has been removed, and removing the remaining one was refused. *)
C1_Witness ==
    \E o \in 1..Len(orgs) :
        /\ Cardinality(ActiveOwners(o)) = 1
        /\ \E u \in Users : /\ memberships[o][u].exists
                            /\ memberships[o][u].is_active
                            /\ memberships[o][u].role # "owner"
        /\ proc[1].pc = "done"
        /\ proc[1].op \in {"remove_member", "change_member_role"}
        /\ proc[1].org = o
        /\ proc[1].res = "LastOwnerError"

(* C2: two concurrent calls that each remove or demote a different owner of *)
(* an organization with two active owners cannot both succeed: an active    *)
(* owner remains under every interleaving of their checks and commits.      *)
C2_OwnerSurvivesRace == \A o \in 1..Len(orgs) : ActiveOwners(o) # {}


-----------------------------------------------------------------------------
(* Session ledger properties *)

(* The ledger holds a live row for the token: same access jti, active,     *)
(* expiry still ahead.                                                      *)
LiveRow(tok) ==
    \E s \in sessions : s.token_jti = tok.jti /\ s.is_active /\ s.expires_at > now

(* The token verifies under the secret and its exp has not passed *)
Decodes(tok) == tok.sig /\ tok.exp >= now

ActiveUser(u) == u \in Users /\ users[u].is_active

ActiveMembership(o, u) ==
    /\ o \in 1..Len(orgs)
    /\ u \in Users
    /\ memberships[o][u].exists
    /\ memberships[o][u].is_active

(* C3: with authentication enabled, a bearer token is resolved to a user   *)
(* only if it decodes as valid and unexpired, a session row with its       *)
(* access jti is active with expires_at in the future, and its subject is  *)
(* an existing active user; every other token, the absent one included,    *)
(* resolves to no user and a protected endpoint answers 401.               *)
C3_ResolutionNeedsLiveSession ==
    auth_enabled =>
        \A tok \in Presentable :
            ~(Decodes(tok) /\ LiveRow(tok) /\ ActiveUser(tok.sub))
                => (~GetUserFromToken(tok).ok /\ require_auth(tok) = "401")

(* C4: once logout of an access jti has completed, the access token with   *)
(* that jti is never resolved again, even while it still decodes, and the  *)
(* session row with that jti is never active again.                        *)
C4_LoggedOutStaysRejected ==
    \A tok \in tokens :
        (tok.type = "access" /\ tok.jti \in hist.loggedOut) =>
            /\ ~GetUserFromToken(tok).ok
            /\ \A s \in sessions : s.token_jti = tok.jti => ~s.is_active

(* GET /auth/me answered 401 to a logged-out token that still decodes *)
C4_Witness ==
    /\ proc[1].pc = "done"
    /\ proc[1].op = "get_me"
    /\ proc[1].res = "401"
    /\ proc[1].tok.type = "access"
    /\ proc[1].tok.jti \in hist.loggedOut
    /\ Decodes(proc[1].tok)
    /\ proc[1].tok.exp > now
    /\ ActiveUser(proc[1].tok.sub)
    /\ \E s \in sessions : s.token_jti = proc[1].tok.jti /\ ~s.is_active

(* Refresh jtis that a completed refresh has consumed *)
Refreshed == {x.r : x \in {y \in hist.rotations : y.kind = "refresh"}}

RefreshesOf(r) == {x \in hist.rotations : x.kind = "refresh" /\ x.r = r}

(* C5: after a refresh with refresh jti R has succeeded, no later refresh  *)
(* with R gets past the lookup (it is answered 401) and none creates a     *)
(* session: R has exactly one successor session.                           *)
C5_RefreshSingleUse ==
    /\ (proc[1].op = "refresh" /\ proc[1].pc \in {"rf_revoke", "rf_create"})
           => proc[1].tok.jti \notin Refreshed
    /\ (proc[1].op = "refresh" /\ proc[1].pc = "done" /\ proc[1].tok.jti \in Refreshed)
           => \/ proc[1].res = "401"
              \/ /\ proc[1].res = "200"
                 /\ \E x \in RefreshesOf(proc[1].tok.jti) : x.new = nextJti - 1
    /\ \A r \in Refreshed : Cardinality(RefreshesOf(r)) = 1

(* A second refresh with a consumed, still unexpired refresh token was     *)
(* answered 401.                                                           *)
C5_Witness ==
    /\ proc[1].pc = "done"
    /\ proc[1].op = "refresh"
    /\ proc[1].res = "401"
    /\ proc[1].tok.type = "refresh"
    /\ Decodes(proc[1].tok)
    /\ proc[1].tok.jti \in Refreshed
    /\ Cardinality(sessions) = 2

(* C6: one refresh token never produces two new sessions, however two      *)
(* concurrent refreshes with it interleave.                                *)
C6_OneSuccessorPerRefreshToken ==
    \A t \in tokens :
        t.type = "refresh" =>
            Cardinality({x \in hist.rotations : x.kind = "refresh" /\ x.r = t.jti}) <= 1

(* Rotations that some request is still carrying out *)
InFlight ==
    {proc[p].s.token_jti : p \in {q \in Procs : proc[q].pc \in {"rf_create", "sw_create"}}}

(* C7: whenever a rotation has revoked the old session and no request is   *)
(* still carrying that rotation out, the replacement session exists.       *)
C7_RevokedHasReplacement ==
    \A old \in hist.revoking \ InFlight :
        \E x \in hist.rotations :
            /\ x.old = old
            /\ \E s \in sessions : s.token_jti = x.new

(* C8: select-organization for an organization in which the authenticated  *)
(* caller has no active membership is answered 403, creates no session     *)
(* and leaves the caller's session row active and as it was.               *)
C8_Step ==
    (/\ proc[1].pc = "idle"
     /\ proc'[1].op = "select_organization"
     /\ require_auth(proc'[1].tok) = "200"
     /\ ~ActiveMembership(proc'[1].org, proc'[1].tok.sub))
    => /\ proc'[1].pc = "done"
       /\ proc'[1].res = "403"
       /\ sessions' = sessions
       /\ tokens' = tokens
       /\ nextJti' = nextJti
       /\ \E s \in sessions' : s.token_jti = proc'[1].tok.jti /\ s.is_active

C8_NotAMemberKeepsSession == [][C8_Step]_vars

(* The caller holds a live session and was answered 403 for an             *)
(* organization with no membership row for them.                           *)
C8_Witness ==
    /\ proc[1].pc = "done"
    /\ proc[1].op = "select_organization"
    /\ proc[1].res = "403"
    /\ ~ActiveMembership(proc[1].org, proc[1].tok.sub)
    /\ LiveRow(proc[1].tok)
    /\ GetUserFromToken(proc[1].tok).ok

(* The step that completes a switch leaves the session behind the         *)
(* presented access jti inactive and adds exactly one session row, active  *)
(* and bound to the requested organization.                                *)
C9_SwitchStep ==
    (proc[1].pc = "sw_create" /\ proc'[1].pc = "done" /\ proc'[1].res = "200") =>
        /\ proc[1].tok.jti \in hist.revoking \/ get_session_by_jti(proc[1].tok.jti) = {}
        /\ \A s \in sessions' : s.token_jti = proc[1].tok.jti => ~s.is_active
        /\ \E s \in sessions' \ sessions :
              /\ sessions' = sessions \cup {s}
              /\ s.is_active
              /\ s.user_id = proc[1].tok.sub
              /\ s.organization_id = proc[1].org
              /\ s.token_jti \notin {r.token_jti : r \in sessions}
              /\ \E tok \in tokens' \ tokens :
                    /\ tok.type = "access"
                    /\ tok.jti = s.token_jti
                    /\ tok.org_id = proc[1].org

(* Every access token carries the organization of the session row created  *)
(* with it (none when the row has none).                                   *)
C9_TokenMatchesRow ==
    \A tok \in tokens : \A s \in sessions :
        (tok.type = "access" /\ tok.jti = s.token_jti) => tok.org_id = s.organization_id

(* No step changes the organization of a session row that stays *)
C9_RowKeepsOrg ==
    \A s \in sessions : \A t \in sessions' :
        t.token_jti = s.token_jti => t.organization_id = s.organization_id

(* C9: a successful switch_organization revokes the session behind the     *)
(* current access jti and creates one new active session bound to the new  *)
(* organization; no step modifies the organization id of an existing       *)
(* session row; every access token's tenant id equals the organization id  *)
(* of the session row created with it.                                     *)
C9_TenantBinding ==
    /\ []C9_TokenMatchesRow
    /\ [][C9_SwitchStep /\ C9_RowKeepsOrg]_vars

(* A switch from one organization to another has completed *)
C9_Witness ==
    /\ proc[1].pc = "done"
    /\ proc[1].op = "select_organization"
    /\ proc[1].res = "200"
    /\ proc[1].tok.org_id # NoOrg
    /\ proc[1].tok.org_id # proc[1].org
    /\ \E s \in sessions : /\ s.token_jti = proc[1].tok.jti
                           /\ ~s.is_active
                           /\ s.organization_id = proc[1].tok.org_id
    /\ \E s \in sessions : /\ s.token_jti = nextJti - 1
                           /\ s.is_active
                           /\ s.organization_id = proc[1].org

(* C10: an access token that carries a tenant id is not resolved while its *)
(* subject has no active membership in that tenant.                        *)
C10_TenantTokenNeedsMembership ==
    \A tok \in tokens :
        (tok.type = "access" /\ tok.org_id # NoOrg /\ ~ActiveMembership(tok.org_id, tok.sub))
            => ~GetUserFromToken(tok).ok

-----------------------------------------------------------------------------
(* C11: a token is accepted only where its type is expected.  Resolution at
   request time succeeds for access tokens only, and a completed logout,
   select-organization or get-me request that was sent a refresh token, or a
   completed refresh request that was sent an access token, was not answered
   200. *)
C11_TypeSeparation ==
    /\ \A tok \in tokens : tok.type # "access" => ~GetUserFromToken(tok).ok
    /\ \A p \in Procs :
         (proc[p].pc = "done" /\ proc[p].tok \in tokens /\ proc[p].res = "200") =>
            /\ proc[p].op \in {"logout", "select_organization", "get_me"}
                  => proc[p].tok.type = "access"
            /\ proc[p].op = "refresh" => proc[p].tok.type = "refresh"

-----------------------------------------------------------------------------
(* C12: while an organization has exactly one active owner membership, a
   remove_member call on that owner and a change_member_role call on that
   owner to a role other than owner leave the membership as it is and end
   with the last-owner error; a change_member_role call that demotes an
   active owner while the organization has a second active owner ends with
   the membership carrying the new role, still active. *)
DemotesOrRemoves(rec) ==
    \/ rec.op = "remove_member"
    \/ rec.op = "change_member_role" /\ rec.role \in Roles \ {"owner"}

C12_Step ==
    \A p \in Procs :
      LET rec == proc'[p]
          o == rec.org
          u == rec.user
      IN  (DemotesOrRemoves(rec) /\ proc[p].pc # "done" /\ o \in OrgIds /\ u \in Users) =>
            /\ ActiveOwners(o) = {u} =>
                 /\ memberships'[o][u] = memberships[o][u]
                 /\ rec.pc = "done" => rec.res = "LastOwnerError"
            /\ ( /\ rec.op = "change_member_role"
                 /\ rec.pc = "done"
                 /\ u \in ActiveOwners(o)
                 /\ Cardinality(ActiveOwners(o)) >= 2 ) =>
                 /\ rec.res = "ok"
                 /\ memberships'[o][u] =
                      [exists |-> TRUE, role |-> rec.role, is_active |-> TRUE]

C12_LastOwnerProtected == [][C12_Step]_vars

(* The first owner has been demoted after a second owner was added. *)
C12_Witness ==
    /\ proc[1].pc = "done"
    /\ proc[1].op = "change_member_role"
    /\ proc[1].res = "ok"
    /\ proc[1].m = [exists |-> TRUE, role |-> "owner", is_active |-> TRUE]
    /\ proc[1].role # "owner"
    /\ memberships[proc[1].org][proc[1].user].role = proc[1].role
    /\ ActiveOwners(proc[1].org) # {}

-----------------------------------------------------------------------------
(* The role level table: owner 4, admin 3, member 2, viewer 1. *)
RoleLevel ==
    [role \in Roles |->
        IF role = "owner" THEN 4 ELSE IF role = "admin" THEN 3
        ELSE IF role = "member" THEN 2 ELSE 1]

HasLevel(o, u, required_role) ==
    /\ memberships[o][u].exists
    /\ memberships[o][u].is_active
    /\ RoleLevel[memberships[o][u].role] >= RoleLevel[required_role]

(* C13: for every user, organization and required role, check_permission
   answers true exactly when the user has an active membership in the
   organization whose role level is at least the required role's level, and
   a completed check_permission call has returned that answer. *)
C13_CheckPermission ==
    /\ \A u \in Users, o \in OrgIds, r \in Roles :
          check_permission(u, o, r) <=> HasLevel(o, u, r)
    /\ \A p \in Procs :
          (proc[p].pc = "done" /\ proc[p].op = "check_permission") =>
              (proc[p].res = "True" <=> HasLevel(proc[p].org, proc[p].user, proc[p].role))

(* A viewer has been refused the member level. *)
C13_Witness ==
    /\ proc[1].pc = "done"
    /\ proc[1].op = "check_permission"
    /\ proc[1].role = "member"
    /\ proc[1].res = "False"
    /\ memberships[proc[1].org][proc[1].user] = NewMembership("viewer")
    /\ check_permission(proc[1].user, proc[1].org, "viewer")

-----------------------------------------------------------------------------
(* What the level table gives for each capability *)
LevelAnswer(name, role) ==
    CASE name = "can_manage_members" -> RoleLevel[role] >= RoleLevel["admin"]
      [] name = "can_manage_dialogs" -> RoleLevel[role] >= RoleLevel["member"]
      [] name = "can_view_dialogs"   -> RoleLevel[role] >= RoleLevel["viewer"]
      [] name = "is_owner"           -> RoleLevel[role] = RoleLevel["owner"]

(* C14: the role gate rejects a context exactly when its role level is below
   the required role's level; each capability predicate of a context equals
   what the level table gives for its role; and for every active membership
   the service predicate of the same name gives the same answer as the
   context built from that membership. *)
C14_GateAgreesWithLevels ==
    /\ \A c \in Contexts \ {NoMem}, r \in Roles :
          /\ check_role(c, r) \in {"ok", "403"}
          /\ check_role(c, r) = "403" <=> RoleLevel[c.role] < RoleLevel[r]
    /\ \A c \in Contexts \ {NoMem}, name \in ServicePredicates :
          ContextAnswer(name, c) <=> LevelAnswer(name, c.role)
    /\ \A o \in OrgIds, u \in Users, name \in ServicePredicates :
          (memberships[o][u].exists /\ memberships[o][u].is_active) =>
              (ServiceAnswer(name, u, o) <=> ContextAnswer(name, memberships[o][u]))
    /\ \A p \in Procs :
          proc[p].pc = "done" =>
            /\ (proc[p].op = "require_role" /\ proc[p].m.exists) =>
                 (proc[p].res = "403" <=> RoleLevel[proc[p].m.role] < RoleLevel[proc[p].role])
            /\ (proc[p].op \in ServicePredicates /\ proc[p].m.exists) =>
                 (proc[p].res = "True" <=> LevelAnswer(proc[p].op, proc[p].m.role))
            /\ (proc[p].op \in ServicePredicates /\ proc[p].user \in Users
                  /\ memberships[proc[p].org][proc[p].user].exists
                  /\ memberships[proc[p].org][proc[p].user].is_active) =>
                 (proc[p].res = "True" <=>
                     LevelAnswer(proc[p].op, memberships[proc[p].org][proc[p].user].role))

(* The gate for admin has rejected a member's context. *)
C14_Witness ==
    /\ proc[1].pc = "done"
    /\ proc[1].op = "require_role"
    /\ proc[1].m = NewMembership("member")
    /\ proc[1].role = "admin"
    /\ proc[1].res = "403"
    /\ \E o \in OrgIds, u \in Users : memberships[o][u] = NewMembership("member")

-----------------------------------------------------------------------------
(* What the tables say about a login request's inputs *)
CredentialsMatch(u, password) ==
    /\ u \in Users
    /\ users[u].is_active
    /\ users[u].password_hash = hashpw(password)

IsLogin(rec) == rec.op \in {"login", "login_with_username"}

(* C15: a login call fails with invalid-credentials when authentication
   fails, and with not-a-member when an organization is given and the user
   has no active membership in it; in both cases the call ends at once with
   no session created and last-login untouched.  The step that completes a
   login adds exactly one session, active, for the user and bound to the
   given organization (or to none), and touches no other session. *)
C15_Step ==
    \A p \in Procs :
      LET rec == proc'[p]
          memberOk == rec.org = NoOrg \/ ActiveMembership(rec.org, rec.user)
      IN  (IsLogin(rec) /\ auth_enabled) =>
            /\ proc[p].pc = "idle" =>
                 /\ ~CredentialsMatch(rec.user, rec.pw) =>
                        rec.pc = "done" /\ rec.res = "InvalidCredentials"
                 /\ (CredentialsMatch(rec.user, rec.pw) /\ ~memberOk) =>
                        rec.pc = "done" /\ rec.res = "NotAMember"
                 /\ (CredentialsMatch(rec.user, rec.pw) /\ memberOk) => rec.pc # "done"
                 /\ sessions' = sessions
                 /\ tokens' = tokens
                 /\ users' = users
            /\ (proc[p].pc \notin {"idle", "done"} /\ rec.pc = "done") =>
                 /\ rec.res = "200"
                 /\ \E s \in sessions' \ sessions :
                       /\ sessions' = sessions \cup {s}
                       /\ s.user_id = rec.user
                       /\ s.organization_id = rec.org
                       /\ s.is_active

C15_LoginOutcomes == [][C15_Step]_vars

(* A login with an organization has succeeded, and the session is there. *)
C15_Witness ==
    /\ proc[1].pc = "done"
    /\ IsLogin(proc[1])
    /\ proc[1].res = "200"
    /\ proc[1].org # NoOrg
    /\ \E s \in sessions : /\ s.user_id = proc[1].user
                           /\ s.organization_id = proc[1].org
                           /\ s.is_active
    /\ users[proc[1].user].last_login_at >= 0

-----------------------------------------------------------------------------
(* C16: authenticate and authenticate_by_username return the user exactly
   when an active user with the identifier exists and the password matches
   its stored hash, and return the same empty result in every other case;
   a login call whose authentication fails ends with the same result and the
   same state whether the identifier is unknown or the password is wrong:
   nothing but the request's own record changes. *)
C16_AuthenticateExact ==
    \A id \in Users \cup {NoUser}, pw \in Passwords :
        /\ authenticate(id, pw) = IF CredentialsMatch(id, pw) THEN {id} ELSE {}
        /\ authenticate_by_username(id, pw) = IF CredentialsMatch(id, pw) THEN {id} ELSE {}

C16_FailureStep ==
    \A p \in Procs :
      LET rec == proc'[p]
      IN  ( /\ IsLogin(rec)
            /\ proc[p].pc = "idle"
            /\ auth_enabled
            /\ ~CredentialsMatch(rec.user, rec.pw) ) =>
            /\ proc'[p] = [Call(rec.op, rec.org, rec.user, "none")
                              EXCEPT !.pw = rec.pw, !.pc = "done",
                                     !.res = "InvalidCredentials"]
            /\ UNCHANGED <<users, orgs, memberships, sessions, tokens, nextJti, now, hist>>

C16_SameFailure == []C16_AuthenticateExact /\ [][C16_FailureStep]_vars

(* A login with a known identifier and a wrong password has failed. *)
C16_Witness ==
    /\ proc[1].pc = "done"
    /\ IsLogin(proc[1])
    /\ proc[1].res = "InvalidCredentials"
    /\ proc[1].user \in Users
    /\ users[proc[1].user].is_active
    /\ ~CredentialsMatch(proc[1].user, proc[1].pw)

-----------------------------------------------------------------------------
(* C17: create_organization persists the organization and its owner's
   membership together.  A step that adds an organization row is the commit
   of a create_organization call and adds, in the same step, the active
   owner membership of the call's owner_user_id in that organization; every
   other step of a create_organization call, its failures and a stop of the
   process in the middle of it included, leaves both tables as they were.
   So no organization row is ever without a membership row, and no
   membership row without its organization row. *)
C17_Step ==
    /\ Len(orgs') # Len(orgs) =>
          /\ Len(orgs') = Len(orgs) + 1
          /\ \E p \in Procs :
                /\ proc[p].op = "create_organization"
                /\ proc'[p].pc = "done"
                /\ proc'[p].res = "ok"
                /\ proc'[p].org = Len(orgs')
                /\ orgs'[Len(orgs')].is_active
                /\ memberships'[Len(orgs')][proc[p].user] =
                      [exists |-> TRUE, role |-> "owner", is_active |-> TRUE]
    /\ \A p \in Procs :
          ( /\ proc[p] # proc'[p]
            /\ \/ proc'[p].op = "create_organization"
               \/ proc[p].op = "create_organization" /\ proc[p].pc # "done"
            /\ ~(proc'[p].pc = "done" /\ proc'[p].res = "ok") ) =>
              /\ orgs' = orgs
              /\ memberships' = memberships

C17_RowsTogether ==
    \A o \in OrgIds :
        (o \in 1..Len(orgs)) <=> (\E u \in Users : memberships[o][u].exists)

C17_AtomicCreate == []C17_RowsTogether /\ [][C17_Step]_vars

(* An organization has been created, with its owner's membership. *)
C17_Witness ==
    /\ proc[1].pc = "done"
    /\ proc[1].op = "create_organization"
    /\ proc[1].res = "ok"
    /\ proc[1].org = Len(orgs)
    /\ memberships[proc[1].org][proc[1].user] =
          [exists |-> TRUE, role |-> "owner", is_active |-> TRUE]

-----------------------------------------------------------------------------
(* C18: access-code generation is bounded.  A create_organization call that
   is drawing codes while every code is taken leaves the drawing loop (with
   an error, there being no free code). *)
C18_GenerationTerminates ==
    \A p \in Procs :
        (proc[p].pc = "co_code" /\ \A c \in Codes : CodeTaken(c))
            ~> (proc[p].pc \notin {"co_code", "co_select"})

-----------------------------------------------------------------------------
UppercaseAlphanumerics ==
    {"A", "B", "C", "D", "E", "F", "G", "H", "I", "J", "K", "L", "M", "N", "O", "P", "Q",
     "R", "S", "T", "U", "V", "W", "X", "Y", "Z",
     "0", "1", "2", "3", "4", "5", "6", "7", "8", "9"}

(* C19: in every state, concurrent create_organization calls included, the
   access code of every organization row is 6 characters, each an uppercase
   letter or a digit, and no two rows, active or soft-deleted, have the same
   access code. *)
C19_AccessCodes ==
    /\ \A o \in 1..Len(orgs) :
          LET text == AccessCodeText(orgs[o].access_code)
          IN  /\ Len(text) = 6
              /\ \A i \in 1..Len(text) : text[i] \in UppercaseAlphanumerics
    /\ \A o1, o2 \in 1..Len(orgs) :
          o1 # o2 => AccessCodeText(orgs[o1].access_code) # AccessCodeText(orgs[o2].access_code)

(* Two concurrent calls drew the same code; one has committed, the other  *)
(* was refused by the unique index.                                       *)
C19_Witness ==
    \E p \in Procs, o \in 1..Len(orgs) :
        /\ proc[p].pc = "done"
        /\ proc[p].op = "create_organization"
        /\ proc[p].res = "IntegrityError"
        /\ proc[p].code = orgs[o].access_code
        /\ proc[p].slug # orgs[o].slug
        /\ \A o2 \in 1..Len(orgs) : orgs[o2].slug # proc[p].slug

-----------------------------------------------------------------------------
(* C20: a create_organization call by an existing user whose slug is the
   slug of any organization row, active or soft-deleted, ends at once with
   the already-exists error and changes neither table. *)
C20_Step ==
    \A p \in Procs :
        ( /\ proc[p].pc = "idle"
          /\ proc'[p].op = "create_organization"
          /\ proc'[p].user \in Users
          /\ \E o \in 1..Len(orgs) : orgs[o].slug = proc'[p].slug ) =>
            /\ proc'[p].pc = "done"
            /\ proc'[p].res = "OrganizationAlreadyExistsError"
            /\ orgs' = orgs
            /\ memberships' = memberships

C20_SlugCollisionRejected == [][C20_Step]_vars

-----------------------------------------------------------------------------
(* What the users table says about a create_user call's inputs *)
BadUserInput(rec) ==
    \/ rec.pw < 8
    \/ rec.pw > 128
    \/ rec.username = None /\ rec.email = None
    \/ rec.username # None /\ \E u \in DOMAIN users : users[u].username = rec.username
    \/ rec.email # None /\ \E u \in DOMAIN users : users[u].email = rec.email

(* C21: a create_user call whose password length is outside [8, 128], that
   gives neither username nor email, or whose username or email is held by
   any existing user row, active or not, never adds a user row and ends with
   an error; a call with none of these defects ends by adding exactly one
   row, active, with the given username, email and password hash; no other
   step of the call changes the users table. *)
C21_Step ==
    \A p \in Procs :
      LET rec == proc'[p]
      IN  (rec.op = "create_user" /\ proc[p].pc # "done" /\ proc'[p] # proc[p]) =>
            /\ proc[p].pc = "idle" =>
                 /\ users' = users
                 /\ rec.pc = "done" => rec.res # "ok"
                 /\ ~BadUserInput(rec) => rec.pc # "done"
            /\ (proc[p].pc = "cu_commit" /\ BadUserInput(rec)) =>
                 /\ users' = users
                 /\ rec.pc = "done"
                 /\ rec.res # "ok"
            /\ (proc[p].pc = "cu_commit" /\ ~BadUserInput(rec)) =>
                 /\ rec.pc = "done"
                 /\ rec.res = "ok"
                 /\ DOMAIN users' = DOMAIN users \cup {rec.user}
                 /\ rec.user \notin DOMAIN users
                 /\ \A u \in DOMAIN users : users'[u] = users[u]
                 /\ users'[rec.user].is_active
                 /\ users'[rec.user].username = rec.username
                 /\ users'[rec.user].email = rec.email
                 /\ users'[rec.user].password_hash = hashpw(rec.pw)

C21_CreateUser == [][C21_Step]_vars

(* A second account has been created. *)
C21_Witness ==
    /\ proc[1].pc = "done"
    /\ proc[1].op = "create_user"
    /\ proc[1].res = "ok"
    /\ proc[1].user \in DOMAIN users
    /\ Cardinality(DOMAIN users) = 2
    /\ users[proc[1].user].is_active

-----------------------------------------------------------------------------
(* C26: a create_and_add_user call with an invalid role or for an
   organization that does not exist ends at once with an error and creates
   neither a user nor a membership; when the user row has been committed and
   add_member then fails, or the process stops before it commits, the user
   row stays and the user has no membership in any organization. *)
C26_Step ==
    \A p \in Procs :
      LET rec == proc'[p]
      IN  /\ ( /\ proc[p].pc = "idle"
               /\ rec.op = "create_and_add_user"
               /\ rec.role \notin Roles \/ rec.org \notin 1..Len(orgs) ) =>
                 /\ rec.pc = "done"
                 /\ rec.res # "ok"
                 /\ users' = users
                 /\ memberships' = memberships
          /\ ( /\ proc[p].pc = "cau_member"
               /\ proc'[p] # proc[p]
               /\ ~(rec.pc = "done" /\ rec.res = "ok") ) =>
                 /\ users' = users
                 /\ proc[p].user \in DOMAIN users
                 /\ \A o \in OrgIds : memberships'[o][proc[p].user] = NoMem

C26_UserStaysWithoutMembership == [][C26_Step]_vars

(* The account was created and add_member failed. *)
C26_Witness ==
    /\ proc[1].pc = "done"
    /\ proc[1].op = "create_and_add_user"
    /\ proc[1].res = "DBAPIError"
    /\ proc[1].user \in DOMAIN users
    /\ users[proc[1].user].username = proc[1].username
    /\ \A o \in OrgIds : memberships[o][proc[1].user] = NoMem

-----------------------------------------------------------------------------
(* C22: logout is idempotent and reports success.  A logout request whose
   token decodes, for a jti with no active session (never issued as an
   access jti, or already revoked), is answered 200 at once and changes no
   table; one for a jti with an active session is answered 200 by the step
   that clears that session's active flag, which touches no other row (as
   long as the row it loaded is still in the table); and a session whose
   jti has been logged out is never active again. *)
C22_Step ==
    \A p \in Procs :
      LET rec == proc'[p]
          jti == rec.tok.jti
          live == {r \in sessions : r.token_jti = jti /\ r.is_active}
      IN  (rec.op = "logout" /\ proc'[p] # proc[p]) =>
            /\ ( /\ proc[p].pc = "idle"
                 /\ auth_enabled
                 /\ rec.tok # NoToken
                 /\ rec.tok.sig
                 /\ rec.tok.exp >= now ) =>
                   /\ sessions' = sessions
                   /\ tokens' = tokens
                   /\ users' = users
                   /\ live = {} => (rec.pc = "done" /\ rec.res = "200")
                   /\ live # {} => rec.pc = "lo_revoke"
            /\ (proc[p].pc = "lo_revoke" /\ \E r \in sessions : r.token_jti = jti) =>
                   /\ rec.pc = "done"
                   /\ rec.res = "200"
                   /\ \A r \in sessions' : r.token_jti = jti => ~r.is_active
                   /\ {r \in sessions' : r.token_jti # jti} = {r \in sessions : r.token_jti # jti}
                   /\ tokens' = tokens
                   /\ users' = users

C22_LoggedOutInactive ==
    \A s \in sessions : s.token_jti \in hist.loggedOut => ~s.is_active

C22_LogoutIdempotent == []C22_LoggedOutInactive /\ [][C22_Step]_vars

(* A logout for an already revoked session has been answered 200. *)
C22_Witness ==
    /\ proc[1].pc = "done"
    /\ proc[1].op = "logout"
    /\ proc[1].res = "200"
    /\ proc[1].tok.type = "access"
    /\ proc[1].s = NoSession
    /\ \E s \in sessions : s.token_jti = proc[1].tok.jti /\ ~s.is_active

-----------------------------------------------------------------------------
(* C23: a dialog is returned by the list filter, or passes the per-dialog
   check, for a user only if it has no owner, is owned by that user, or is
   owned by an organization in which the user has an active membership when
   the request is served; with an organization selected the list filter
   returns dialogs of that organization only.  Stated on the step that
   answers the request: the rows it returns are for the token's subject and
   each of them has one of the three owners; the filter called with a
   selected organization returns rows of that organization only. *)
MayRead(user, d) ==
    \/ d.owner_type = "None"
    \/ d.owner_type = "user" /\ d.owner_id = user
    \/ /\ d.owner_type = "organization"
       /\ memberships[d.owner_id][user].exists
       /\ memberships[d.owner_id][user].is_active

DialogReads == {"get_dialogs", "get_dashboard_stats", "get_sellers", "get_dialog_detail"}

C23_Step ==
    LET rec == proc'[1]
    IN  /\ (proc'[1] # proc[1] /\ rec.pc = "done" /\ rec.op \in DialogReads) =>
              /\ rec.rows # {} => (rec.res = "200" /\ rec.user = rec.tok.sub)
              /\ \A d \in rec.rows : MayRead(rec.user, d)
        /\ (/\ proc'[1] # proc[1]
            /\ rec.pc = "done"
            /\ rec.op = "get_accessible_dialog_filter") =>
              /\ rec.org = NoOrg => \A d \in rec.rows : MayRead(rec.user, d)
              /\ rec.org # NoOrg =>
                    \A d \in rec.rows : /\ d.owner_type = "organization"
                                         /\ d.owner_id = rec.org
              /\ (rec.org # NoOrg /\ ActiveMembership(rec.org, rec.user)) =>
                    \A d \in rec.rows : MayRead(rec.user, d)

C23_DialogAccess == [][C23_Step]_vars

(* C23 witness: the list is answered for user 2 after the membership in   *)
(* organization 1 was removed: the dialog of organization 2 is in it, the *)
(* dialog of organization 1 is not.                                       *)
C23_Witness ==
    /\ proc[1].pc = "done"
    /\ proc[1].op = "get_dialogs"
    /\ proc[1].res = "200"
    /\ proc[1].user = 2
    /\ memberships[1][2].exists
    /\ ~memberships[1][2].is_active
    /\ [owner_type |-> "organization", owner_id |-> 2] \in proc[1].rows
    /\ [owner_type |-> "organization", owner_id |-> 1] \notin proc[1].rows

-----------------------------------------------------------------------------
(* C24: with the flag off, the dialog list, the dashboard statistics and
   the sellers list answer a request that carries no token with 200. *)
C24_LegacyEndpointsOpen ==
    (/\ ~auth_enabled
     /\ proc[1].pc = "done"
     /\ proc[1].op \in {"get_dialogs", "get_dashboard_stats", "get_sellers"}
     /\ proc[1].tok = NoToken)
        => proc[1].res = "200"

-----------------------------------------------------------------------------
(* C25: with the flag off, a register request and a login request are each
   answered 503, and no user row and no session row is created. *)
C25_AuthEndpointsUnavailable ==
    ~auth_enabled =>
        /\ (proc[1].pc = "done" /\ proc[1].op \in {"register", "login"})
               => proc[1].res = "503"
        /\ DOMAIN users = {1}
        /\ sessions = {}

-----------------------------------------------------------------------------
(* C27: a token that is issued and decoded at once yields the subject, the
   type and the tenant id it was issued with; an access token has the
   org_id claim exactly when an organization was given, a refresh token
   never has it. *)
C27_TokenRoundTrip ==
    (/\ proc[1].pc = "done"
     /\ proc[1].op \in {"create_access_token", "create_refresh_token"}
     /\ proc[1].jwt.payload.iat = now)
        => /\ proc[1].res = "ok"
           /\ UUID(proc[1].payload.sub) = proc[1].user
           /\ proc[1].op = "create_access_token" =>
                 /\ proc[1].payload.type = "access"
                 /\ ("org_id" \in DOMAIN proc[1].payload) <=> (proc[1].org # NoOrg)
                 /\ proc[1].org # NoOrg => UUID(proc[1].payload.org_id) = proc[1].org
           /\ proc[1].op = "create_refresh_token" =>
                 /\ proc[1].payload.type = "refresh"
                 /\ "org_id" \notin DOMAIN proc[1].payload

(* C27 witness: an access token issued for user 2 and organization 1 has  *)
(* been decoded.                                                          *)
C27_Witness ==
    /\ proc[1].pc = "done"
    /\ proc[1].op = "create_access_token"
    /\ proc[1].res = "ok"
    /\ proc[1].user = 2
    /\ proc[1].org = 1
    /\ proc[1].jwt.payload.iat = now
    /\ "org_id" \in DOMAIN proc[1].payload

-----------------------------------------------------------------------------
(* C28: delete_department(d) leaves no membership whose department_id is
   d, and removes or deactivates no membership: the membership rows, with
   user, organization, role and active flag, are the same before and after.
   Stated on the step of the call. *)
C28_Step ==
    LET rec == proc'[1]
    IN  (proc'[1] # proc[1] /\ rec.pc = "done" /\ rec.op = "delete_department") =>
            /\ memberships' = memberships
            /\ rec.res = "True" =>
                  /\ \A o \in OrgIds, u \in Users : department_id'[o][u] # rec.dept
                  /\ \A o \in OrgIds, u \in Users :
                         department_id[o][u] # rec.dept =>
                             department_id'[o][u] = department_id[o][u]
            /\ rec.res # "True" =>
                  UNCHANGED <<departments, department_id>>

C28_DeleteDepartmentUnlinks == [][C28_Step]_vars

(* C28 witness: a department was deleted whose member had already been   *)
(* removed from the organization; the membership row is still there,      *)
(* inactive as before, and unlinked.                                      *)
C28_Witness ==
    /\ proc[1].pc = "done"
    /\ proc[1].op = "delete_department"
    /\ proc[1].res = "True"
    /\ \E ou \in proc[1].rows : /\ memberships[ou[1]][ou[2]].exists
                                 /\ ~memberships[ou[1]][ou[2]].is_active
    /\ \A o \in OrgIds, u \in Users : department_id[o][u] # proc[1].dept

-----------------------------------------------------------------------------
(* C29: a successful refresh leaves the old session inactive and creates
   exactly one new active session, for the same user and with the same
   organization id as the old session, whose access and refresh jtis differ
   from the old ones; afterwards the old access token is not authorized and
   the new one is.  Stated on the step that completes the refresh; the new
   token is authorized when its user has not been banned meanwhile. *)
C29_Step ==
    LET old == proc[1].s
        oldJtis == {old.token_jti, old.refresh_token_jti}
    IN  (/\ proc[1].op = "refresh"
         /\ proc[1].pc = "rf_create"
         /\ proc'[1].pc = "done"
         /\ proc'[1].res = "200") =>
            /\ \A r \in sessions' : r.token_jti = old.token_jti => ~r.is_active
            /\ \E s \in sessions' \ sessions :
                  /\ sessions' = sessions \cup {s}
                  /\ s.is_active
                  /\ s.user_id = old.user_id
                  /\ s.organization_id = old.organization_id
                  /\ s.token_jti \notin oldJtis
                  /\ s.refresh_token_jti \notin oldJtis
                  /\ s.token_jti # s.refresh_token_jti
                  /\ \E tok \in tokens' \ tokens :
                        /\ tok.type = "access"
                        /\ tok.jti = s.token_jti
                        /\ tok.sub = old.user_id
                        /\ tok.org_id = old.organization_id
                        /\ users[old.user_id].is_active =>
                              (require_auth(tok) = "200")'
            /\ \A tok \in tokens' :
                  (tok.type = "access" /\ tok.jti = old.token_jti) =>
                      (require_auth(tok) = "401")'

C29_RefreshRotates == [][C29_Step]_vars

(* C29 witness: the session of a login into organization 1 was refreshed: *)
(* its row is inactive and a later active row carries organization 1.     *)
C29_Witness ==
    /\ proc[1].pc = "done"
    /\ proc[1].op = "refresh"
    /\ proc[1].res = "200"
    /\ proc[1].s.organization_id = 1
    /\ \E r \in sessions : r.token_jti = proc[1].s.token_jti /\ ~r.is_active
    /\ \E s \in sessions : /\ s.is_active
                           /\ s.token_jti > proc[1].s.refresh_token_jti
                           /\ s.organization_id = 1
                           /\ s.user_id = proc[1].s.user_id

-----------------------------------------------------------------------------
(* C30: once a user's active flag is false the user can neither obtain nor
   use a session: a login or login_with_username request for the account
   fails, a refresh of one of the user's sessions fails and neither revokes
   nor creates a session, and a protected request with any access token of
   the user is rejected, even if the session row is still active.  Stated on
   the step that receives the request. *)
Banned(u) == u \in DOMAIN users /\ ~users[u].is_active

C30_Step ==
    LET rec == proc'[1]
    IN  (auth_enabled /\ proc[1].pc = "idle" /\ proc'[1] # proc[1]) =>
            /\ (rec.op \in {"login", "login_with_username"} /\ Banned(rec.user)) =>
                  /\ rec.pc = "done"
                  /\ rec.res = "InvalidCredentials"
                  /\ UNCHANGED <<sessions, tokens>>
            /\ (/\ rec.op = "refresh"
                /\ rec.tok.type = "refresh"
                /\ Banned(rec.tok.sub)) =>
                  /\ rec.pc = "done"
                  /\ rec.res \in {"401", "500"}
                  /\ UNCHANGED <<sessions, tokens>>
            /\ (/\ rec.op = "get_me"
                /\ rec.tok.type = "access"
                /\ Banned(rec.tok.sub)) =>
                  /\ rec.pc = "done"
                  /\ rec.res \in {"401", "500"}
                  /\ rec.res = "500" => ~rec.tok.sig

C30_BannedUserLockedOut == [][C30_Step]_vars

(* C30 witness: a protected request with the access token of a banned     *)
(* user was answered 401 while the token decodes and its session row is   *)
(* active and unexpired.                                                  *)
C30_Witness ==
    /\ proc[1].pc = "done"
    /\ proc[1].op = "get_me"
    /\ proc[1].res = "401"
    /\ proc[1].tok.type = "access"
    /\ Decodes(proc[1].tok)
    /\ LiveRow(proc[1].tok)
    /\ Banned(proc[1].tok.sub)

-----------------------------------------------------------------------------
(* C31: two logins of the same user that run concurrently both succeed and
   produce two distinct active session rows with distinct access jtis and
   distinct refresh jtis; revoking or rotating one of them leaves the other
   active and authorized.  Stated as: no two session rows share a jti; the
   step that ends a login answers 200 and adds one active row, leaving every
   other row as it was; a step that revokes a session (in a logout or in a
   refresh) changes no other row and no other access token's answer. *)
C31_DistinctJtis ==
    \A s \in sessions : \A t \in sessions :
        s # t => /\ s.token_jti # t.token_jti
                 /\ s.refresh_token_jti # t.refresh_token_jti
                 /\ s.token_jti # t.refresh_token_jti

C31_Step ==
    \A p \in Procs :
        /\ (proc[p].pc = "li_create" /\ proc'[p] # proc[p]) =>
              /\ proc'[p].pc = "done"
              /\ proc'[p].res = "200"
              /\ \E s \in sessions' \ sessions :
                    /\ sessions' = sessions \cup {s}
                    /\ s.is_active
                    /\ s.user_id = proc[p].user
        /\ (proc[p].pc \in {"lo_revoke", "rf_revoke"} /\ proc'[p] # proc[p]) =>
              \A r \in sessions :
                  r.token_jti # proc[p].s.token_jti =>
                      /\ r \in sessions'
                      /\ \A tok \in tokens :
                            (tok.type = "access" /\ tok.jti = r.token_jti) =>
                                (require_auth(tok))' = require_auth(tok)

C31_ConcurrentLogins == []C31_DistinctJtis /\ [][C31_Step]_vars

(* C31 witness: two logins of user 1 overlapped (both sessions were       *)
(* created after the later of the two last-login updates), one of the two *)
(* sessions has been revoked since and the other is active and authorized. *)
C31_Witness ==
    \E s \in sessions : \E t \in sessions :
        /\ s # t
        /\ s.user_id = 1
        /\ t.user_id = 1
        /\ Cardinality(sessions) = 2
        /\ users[1].last_login_at < s.expires_at - JWT_ACCESS_TOKEN_EXPIRE_MINUTES
        /\ users[1].last_login_at < t.expires_at - JWT_ACCESS_TOKEN_EXPIRE_MINUTES
        /\ ~s.is_active
        /\ t.is_active
        /\ \E tok \in tokens : /\ tok.type = "access"
                               /\ tok.jti = t.token_jti
                               /\ require_auth(tok) = "200"

-----------------------------------------------------------------------------
(* C32: whether a refresh succeeds depends on the session row being there
   and active and on the user being active, not on the row's expires_at: an
   active session whose expires_at has passed is still refreshed as long as
   the row has not been swept, although a protected request with that
   session's access token is already rejected.  Stated on the steps of a
   refresh request that carries a refresh token which decodes, and on every
   state for the access tokens of expired rows. *)
C32_ExpiredRejected ==
    auth_enabled =>
        \A tok \in tokens : \A s \in sessions :
            (tok.type = "access" /\ tok.jti = s.token_jti /\ s.expires_at <= now)
                => require_auth(tok) = "401"

C32_Step ==
    LET rec == proc'[1]
    IN  /\ (/\ auth_enabled
            /\ proc[1].pc = "idle"
            /\ rec # proc[1]
            /\ rec.op = "refresh"
            /\ rec.tok.type = "refresh"
            /\ Decodes(rec.tok)) =>
              IF \E s \in sessions : /\ s.refresh_token_jti = rec.tok.jti
                                     /\ s.is_active
                                     /\ users[s.user_id].is_active
              THEN rec.pc = "rf_revoke"
              ELSE rec.pc = "done" /\ rec.res = "401"
        /\ (/\ proc[1].pc = "rf_revoke"
            /\ rec # proc[1]
            /\ rec.pc # "idle"
            /\ \E r \in sessions : r.token_jti = proc[1].s.token_jti) =>
              rec.pc = "rf_create"
        /\ (proc[1].pc = "rf_create" /\ rec # proc[1] /\ rec.pc # "idle") =>
              /\ rec.pc = "done"
              /\ rec.res = "200"
              /\ Cardinality(sessions') = Cardinality(sessions) + 1

C32_RefreshIgnoresExpiry == []C32_ExpiredRejected /\ [][C32_Step]_vars

(* C32 witness: a refresh was answered 200 for a session that had expired *)
(* before the new session was created.                                    *)
C32_Witness ==
    /\ proc[1].pc = "done"
    /\ proc[1].op = "refresh"
    /\ proc[1].res = "200"
    /\ \E s \in sessions :
          /\ s.is_active
          /\ s.user_id = proc[1].s.user_id
          /\ s.token_jti > proc[1].s.refresh_token_jti
          /\ proc[1].s.expires_at < s.expires_at - JWT_ACCESS_TOKEN_EXPIRE_MINUTES

-----------------------------------------------------------------------------
(* C33: cleanup_expired_sessions deletes exactly the session rows whose
   expires_at is before now, active or revoked, returns how many it
   deleted, and leaves every unexpired session unchanged; once a session
   has been deleted, a refresh with its refresh jti fails.  Stated on the
   step of the call and on the step that receives a refresh request. *)
C33_Step ==
    LET rec == proc'[1]
    IN  /\ (/\ proc[1].pc = "idle"
            /\ rec # proc[1]
            /\ rec.op = "cleanup_expired_sessions") =>
              /\ \A s \in sessions : s.expires_at < now => s \notin sessions'
              /\ \A s \in sessions : ~(s.expires_at < now) => s \in sessions'
              /\ sessions' \subseteq sessions
              /\ rec.count = Cardinality(sessions) - Cardinality(sessions')
        /\ (/\ auth_enabled
            /\ proc[1].pc = "idle"
            /\ rec # proc[1]
            /\ rec.op = "refresh"
            /\ rec.tok.type = "refresh"
            /\ \A s \in sessions : s.refresh_token_jti # rec.tok.jti) =>
              /\ rec.pc = "done"
              /\ rec.res \in {"401"}
              /\ sessions' = sessions

C33_CleanupDeletesExpired == [][C33_Step]_vars

(* C33 witness: a sweep has deleted one row, expired and already revoked  *)
(* by a refresh, and has kept the unexpired active row that replaced it.  *)
C33_Witness ==
    /\ proc[1].pc = "done"
    /\ proc[1].op = "cleanup_expired_sessions"
    /\ proc[1].count = 1
    /\ \E s \in proc[1].rows : ~s.is_active /\ s.expires_at < now
    /\ \E s \in sessions : s.expires_at >= now /\ s.is_active

-----------------------------------------------------------------------------
(* C34: a task is created pending with progress 0 and no result; while it  *)
(* is in TASKS_STORAGE its status changes only pending -> processing,      *)
(* processing -> completed or processing -> failed (completed and failed   *)
(* never change), its progress is one of 0, 10, 30, 70, 100 and never      *)
(* decreases; and get_result answers 200 only for a task whose status is   *)
(* completed, with the result stored with it.                              *)
TaskStatusMoves ==
    {<<"pending", "processing">>, <<"processing", "completed">>,
     <<"processing", "failed">>}

C34_Step ==
    /\ \A t \in 1..Len(TASKS_STORAGE') :
          IF t > Len(TASKS_STORAGE)
          THEN /\ TASKS_STORAGE'[t].status = "pending"
               /\ TASKS_STORAGE'[t].progress = 0
               /\ TASKS_STORAGE'[t].result = "None"
          ELSE (TASKS_STORAGE[t].stored /\ TASKS_STORAGE'[t].stored) =>
               /\ \/ TASKS_STORAGE'[t].status = TASKS_STORAGE[t].status
                  \/ <<TASKS_STORAGE[t].status, TASKS_STORAGE'[t].status>> \in TaskStatusMoves
               /\ TASKS_STORAGE'[t].progress >= TASKS_STORAGE[t].progress
               /\ TASKS_STORAGE'[t].progress \in {0, 10, 30, 70, 100}
    /\ \A p \in Procs :
          (/\ proc'[p] # proc[p]
           /\ proc'[p].op = "get_result"
           /\ proc'[p].pc = "done"
           /\ proc'[p].res = "200") =>
              /\ TaskStored(proc'[p].task_id)
              /\ TASKS_STORAGE[proc'[p].task_id].status = "completed"
              /\ proc'[p].result = "transcript"

C34_TaskLifecycle == [][C34_Step]_vars

(* One task completed and read by get_result, another failed after the    *)
(* transcription with its progress left at 70.                            *)
C34_Witness ==
    /\ Len(TASKS_STORAGE) = 2
    /\ \E t \in TaskIds :
          /\ TASKS_STORAGE[t].stored
          /\ TASKS_STORAGE[t].status = "completed"
          /\ TASKS_STORAGE[t].progress = 100
          /\ \E p \in Procs : /\ proc[p].op = "get_result"
                              /\ proc[p].pc = "done"
                              /\ proc[p].res = "200"
                              /\ proc[p].task_id = t
    /\ \E t \in TaskIds :
          /\ TASKS_STORAGE[t].stored
          /\ TASKS_STORAGE[t].status = "failed"
          /\ TASKS_STORAGE[t].progress = 70

-----------------------------------------------------------------------------
(* C38: every dialog row inserted by upload_file is owned by the user who  *)
(* uploaded it or by an organization that user is an active member of,     *)
(* and a user who is neither the uploader nor an active member of the      *)
(* owning organization cannot access it: is_accessible_by_user is false    *)
(* for that user and GET /dialogs/{id} never answers them 200.             *)
C38_Foreign(row, u) ==
    /\ u # row.created_by
    /\ ~(row.owner_type = "organization" /\ row.owner_id \in get_user_org_ids(u))

C38_UploadedDialogOwned ==
    /\ \A d \in 1..Len(dialogs) :
          /\ \/ dialogs[d].owner_type = "user" /\ dialogs[d].owner_id = dialogs[d].created_by
             \/ /\ dialogs[d].owner_type = "organization"
                /\ dialogs[d].owner_id \in get_user_org_ids(dialogs[d].created_by)
          /\ \A u \in Users :
                C38_Foreign(dialogs[d], u) =>
                    ~is_accessible_by_user(dialogs[d], u, get_user_org_ids(u))
    /\ \A p \in Procs :
          (/\ proc[p].op = "get_dialog_detail"
           /\ proc[p].res = "200") =>
              \A row \in proc[p].rows : ~C38_Foreign(row, proc[p].user)

-----------------------------------------------------------------------------
(* C35: while only the admin of organization 1 (user 2) calls the          *)
(* member-management routes, user 2 never holds the owner role, the        *)
(* owner's membership (user 1) stays an active owner row, and the          *)
(* organization is not deleted.                                            *)
C35_AdminStaysAdmin ==
    /\ memberships[1][2].role # "owner"
    /\ memberships[1][1].exists
    /\ memberships[1][1].is_active
    /\ memberships[1][1].role = "owner"
    /\ orgs[1].is_active

-----------------------------------------------------------------------------
(* C36: once delete_organization has set an organization inactive, no      *)
(* step of login, login_with_username or switch_organization adds a        *)
(* session bound to it, and get_current_organization yields no context     *)
(* for a token bound to it.                                                *)
C36_Step ==
    /\ \A s \in sessions' :
          (/\ \A old \in sessions : old.token_jti # s.token_jti
           /\ s.organization_id # NoOrg) =>
              orgs[s.organization_id].is_active
    /\ \A t \in tokens :
          (t.org_id # NoOrg /\ ~orgs[t.org_id].is_active) =>
              get_current_organization(t) \in {"None", "NameError"}

C36_NoSessionForDeletedOrg == [][C36_Step]_vars

-----------------------------------------------------------------------------
(* C37: a step of switch_organization(user_id, org, current_jti) turns     *)
(* is_active off only in sessions whose user_id is the user_id of the      *)
(* call.                                                                   *)
C37_Step ==
    \A p \in Procs :
        (/\ proc[p].op = "switch_organization"
         /\ proc'[p] # proc[p]) =>
            \A s \in sessions :
                (/\ s.is_active
                 /\ \E r \in sessions' : r.token_jti = s.token_jti /\ ~r.is_active) =>
                    s.user_id = proc[p].user

C37_SwitchRevokesOwnSession == [][C37_Step]_vars

-----------------------------------------------------------------------------
(* C39: no token or session carries a role, and a resolution of a valid    *)
(* access token bound to an organization in which its user has an active   *)
(* membership yields a context whose role is the role the membership has   *)
(* at that time, so the role written by the last change_member_role.       *)
C39_RoleResolvedAtRequestTime ==
    /\ \A t \in tokens : "role" \notin DOMAIN t
    /\ \A s \in sessions : "role" \notin DOMAIN s
    /\ \A p \in Procs :
          (/\ proc[p].op = "get_current_organization"
           /\ proc[p].pc = "done"
           /\ require_auth(proc[p].tok) = "200"
           /\ proc[p].org # NoOrg
           /\ is_organization_member(proc[p].user, proc[p].org)) =>
              /\ proc[p].res = "OrganizationContext"
              /\ proc[p].role = memberships[proc[p].org][proc[p].user].role

-----------------------------------------------------------------------------
(* C40: under concurrent create_user calls no two rows of users, active    *)
(* or not, have the same username or the same email (NULLs apart); a call  *)
(* with a valid password and an identifier ends with an already-exists     *)
(* error and leaves the table as it was when a row has its username or     *)
(* email at that moment, and otherwise adds exactly its own row.           *)
C40_Unique ==
    \A u, v \in DOMAIN users :
        u # v =>
            /\ users[u].username = None \/ users[u].username # users[v].username
            /\ users[u].email = None \/ users[u].email # users[v].email

C40_Taken(username, email) ==
    \E u \in DOMAIN users :
        \/ username # None /\ users[u].username = username
        \/ email # None /\ users[u].email = email

C40_Step ==
    \A p \in Procs :
        (/\ proc'[p] # proc[p]
         /\ proc'[p].op = "create_user"
         /\ proc'[p].pc = "done"
         /\ proc'[p].username # None \/ proc'[p].email # None) =>
            IF C40_Taken(proc'[p].username, proc'[p].email)
            THEN /\ proc'[p].res \in AlreadyExistsErrors
                 /\ users' = users
            ELSE /\ proc'[p].res = "ok"
                 /\ DOMAIN users' = DOMAIN users \cup {proc'[p].user}
                 /\ proc'[p].user \notin DOMAIN users
                 /\ \A u \in DOMAIN users : users'[u] = users[u]
                 /\ users'[proc'[p].user].username = proc'[p].username
                 /\ users'[proc'[p].user].email = proc'[p].email

C40_UniqueUsers == []C40_Unique /\ [][C40_Step]_vars

(* Two calls with the same username raced past the checks: one created    *)
(* the row, the other was refused at its commit and the table has one row.*)
C40_Witness ==
    /\ proc[1].op = "create_user" /\ proc[2].op = "create_user"
    /\ proc[1].pc = "done" /\ proc[2].pc = "done"
    /\ proc[1].username = proc[2].username
    /\ proc[1].username # None
    /\ proc[1].res = "ok"
    /\ proc[2].res = "UsernameOrEmailExists"
    /\ Cardinality(DOMAIN users) = 1
    /\ \A u \in DOMAIN users : users[u].is_active

=============================================================================
